---- MODULE Spec2Model ----
(***************************************************************************)
(* The request-dispatch pipeline of odinweb: MiddlewareList hook ordering, *)
(* ApiInterfaceBase.dispatch / _dispatch / dispatch_operation / handle_500,*)
(* Operation.__call__ and create_response (Spec); the operation tables    *)
(* ResourceApiMeta builds (ApiSpec); and single calls of Operation.__eq__, *)
(* UrlPath.format / parse / +, the content type resolution and the        *)
(* listing operations' execute (CallSpec).                                 *)
(*                                                                         *)
(* Conventions of the model:                                               *)
(*   - Python None for a status is 0 and for a headers dict is <<>> (both  *)
(*     are only ever tested with "x or default").                          *)
(*   - A header value is the tuple of its ';'-separated segments, a missing*)
(*     header is <<>>.                                                     *)
(*   - A middleware instance is identified by its position in the list it  *)
(*     was registered in.                                                  *)
(*   - calls is a log of every hook invocation and pipeline stage, in the  *)
(*     order the code performs them (the "calls" list of the test-suite).  *)
(***************************************************************************)
EXTENDS Integers, Sequences, FiniteSets, TLC

VARIABLES
    middleware,     \* ApiInterfaceBase.middleware (a MiddlewareList)
    operation,      \* the Operation being dispatched: methods, middleware
    debug_enabled,  \* ApiInterfaceBase.debug_enabled
    request,        \* the request handed to dispatch
    pc,             \* position inside dispatch
    i,              \* index of the next hook of the loop at pc
    ret,            \* caller handle_500 returns to
    path_args,      \* keys the pre_dispatch hooks added to path_args
    resource,       \* dispatch_operation: resource
    status,         \* dispatch_operation: status
    headers,        \* dispatch_operation: headers
    response,       \* dispatch: response
    exc,            \* the exception raised inside dispatch / last caught there
    exception,      \* handle_500: exception (its argument, or what a hook raised)
    calls,          \* log of hook invocations and stages
    outcome,        \* "none" | "returned" | "raised"
    operation_count,\* Operation._operation_count
    classes,        \* the ResourceApi subclasses declared so far
    swagger_operations, \* SwaggerSpec._operations
    instances,      \* the ResourceApi instances constructed, by class
    bound,          \* binding and middleware of every Operation, by sort_key
    executed,       \* the last Operation.execute: the operation and its self
    cache,          \* the hook sequences a MiddlewareList has cached
    call,           \* a call of a library function: its name and arguments
    result          \* what that call returned or raised

\* The variables of a dispatch.
dispatch_vars ==
    <<middleware, operation, debug_enabled, request, pc, i, ret, path_args,
      resource, status, headers, response, exc, exception, calls, outcome>>

\* The variables of the class declarations (ResourceApiMeta).
api_vars ==
    <<operation_count, classes, swagger_operations, instances, bound,
      executed, cache>>

\* The variables of the instances of the classes and of the cache of a
\* MiddlewareList.
instance_vars == <<swagger_operations, instances, bound, executed, cache>>

\* The variables of a call of a library function outside of a dispatch.
call_vars == <<call, result>>

\* The variables a dispatch leaves alone.
libvars == <<api_vars, call_vars>>

vars == <<dispatch_vars, libvars>>

(* ---------------------------------------------------------------- bounds *)

\* Total number of middleware objects registered on the interface and
\* passed to the Operation constructor.
MaxMiddleware == 2

\* Number of ResourceApi subclasses declared.
MaxClasses == 3

\* Number of Operations created (the cap of Operation._operation_count).
MaxOperations == 4

\* Number of Operations declared in one class body.
MaxDeclared == 2

\* Number of nodes of a UrlPath.
MaxNodes == 2

\* Half seconds between the signing of a url and its verification.
MaxDelay == 4

\* Number of ResourceApi instances constructed.
MaxInstances == 2

\* Number of middleware objects appended to a MiddlewareList in use.
MaxAppended == 2

(* ------------------------------------------------------------- constants *)

default_priority == 10

\* WrappedListOperation / ListOperation class attributes
default_offset == 0
default_limit == 50

OK == 200
NO_CONTENT == 204
SEE_OTHER == 303
NOT_MODIFIED == 304
BAD_REQUEST == 400
METHOD_NOT_ALLOWED == 405
NOT_ACCEPTABLE == 406
UNPROCESSABLE_ENTITY == 422
INTERNAL_SERVER_ERROR == 500
NOT_IMPLEMENTED == 501

JSON == "application/json"
XML == "application/xml"
TEXT == "text/plain"

Range(s) == {s[k] : k \in 1..Len(s)}

(* ------------------------------------------------------------ middleware *)

\* Middleware classes: whether the class has a priority attribute, its
\* value, and the hook methods it defines.
MiddlewareB ==
    [name |-> "MiddlewareB", has_priority |-> FALSE, priority |-> 0,
     hooks |-> {"post_dispatch", "handle_500"}]

MiddlewareC ==
    [name |-> "MiddlewareC", has_priority |-> TRUE, priority |-> 5,
     hooks |-> {"pre_request", "pre_dispatch", "post_dispatch", "post_request"}]

Middleware ==
    [name |-> "Middleware", has_priority |-> FALSE, priority |-> 0,
     hooks |-> {"pre_request", "pre_dispatch", "post_dispatch", "post_request"}]

\* The Operation itself, appended to its own middleware list: priority 100,
\* and the dispatch hooks its class defines (none for Operation itself).
OperationSelf(hooks) ==
    [name |-> "Operation", has_priority |-> TRUE, priority |-> 100, hooks |-> hooks]

OperationHooks == {{}, {"pre_dispatch", "post_dispatch"}}

MiddlewareClasses == {MiddlewareB, MiddlewareC, Middleware}

\* getattr(o, 'priority', default_priority)
PriorityKey(o) == IF o.has_priority THEN o.priority ELSE default_priority

\* sorted(iterable, reverse=reverse, key=...): Python's sort is stable, and
\* stays stable under reverse=True (equal keys keep their original order).
\* The result is the sequence of list positions.
SortsBefore(list, reverse, k, j) ==
    LET a == PriorityKey(list[k])
        b == PriorityKey(list[j])
    IN  \/ (IF reverse THEN a > b ELSE a < b)
        \/ (a = b /\ k < j)

\* sorted() called without passing reverse on.
sort_by_priority_ignores_reverse(list, reverse) ==
    LET before == [j \in 1..Len(list) |->
                    Cardinality({k \in 1..Len(list) : SortsBefore(list, FALSE, k, j)})]
    IN  [r \in 1..Len(list) |-> CHOOSE j \in 1..Len(list) : before[j] = r - 1]

sort_by_priority(list, reverse) ==
    LET before == [j \in 1..Len(list) |->
                    Cardinality({k \in 1..Len(list) : SortsBefore(list, reverse, k, j)})]
    IN  [r \in 1..Len(list) |-> CHOOSE j \in 1..Len(list) : before[j] = r - 1]

\* tuple(m.<hook> for m in middleware if hasattr(m, '<hook>'))
HookMethods(list, sorted, hook) ==
    SelectSeq(sorted, LAMBDA j : hook \in list[j].hooks)

pre_request(list) == HookMethods(list, sort_by_priority(list, FALSE), "pre_request")
pre_dispatch(list) == HookMethods(list, sort_by_priority(list, FALSE), "pre_dispatch")
post_dispatch(list) == HookMethods(list, sort_by_priority(list, TRUE), "post_dispatch")
handle_500(list) == HookMethods(list, sort_by_priority(list, TRUE), "handle_500")
post_request(list) == HookMethods(list, sort_by_priority(list, TRUE), "post_request")

(* ---------------------------------------------- resources and exceptions *)

\* Values a callback or hook hands back as the resource.  via is the chain
\* of post_dispatch hooks the value went through, args the keyword
\* arguments the callback that made the value was called with.
Resource(kind, st, message) ==
    [kind |-> kind, status |-> st, message |-> message, via |-> <<>>, args |-> {}]

NoneResource == Resource("None", 0, "")
DataResource == Resource("data", 0, "boo")
UnencodableResource == Resource("unencodable", 0, "ValueError")
HttpResponseResource == Resource("HttpResponse", OK, "eek")
\* [], a value that is not None and yet false in a condition
EmptyListResource == Resource("EmptyList", 0, "[]")

\* bool(value)
Truthy(res) == res.kind \notin {"None", "EmptyList"}

\* Error.from_status(http_status, 0, message)
ErrorFromStatus(http_status, message) == Resource("Error", http_status, message)

NoException ==
    [kind |-> "none", resource |-> NoneResource, status |-> 0, headers |-> <<>>,
     has_message_dict |-> FALSE]

ImmediateHttpResponse(res, st, hdrs) ==
    [kind |-> "ImmediateHttpResponse", resource |-> res, status |-> st,
     headers |-> hdrs, has_message_dict |-> FALSE]

ValidationError(has_message_dict) ==
    [kind |-> "ValidationError", resource |-> NoneResource, status |-> 0,
     headers |-> <<>>, has_message_dict |-> has_message_dict]

OtherException(kind) ==
    [kind |-> kind, resource |-> NoneResource, status |-> 0, headers |-> <<>>,
     has_message_dict |-> FALSE]

NotImplementedError == OtherException("NotImplementedError")
ValueError == OtherException("ValueError")
TypeError == OtherException("TypeError")

SignalHeaders == [h \in {"X-Signal"} |-> <<"1">>]

\* What user code (a hook or the callback) may raise.
Raisable ==
    { ImmediateHttpResponse(NoneResource, NOT_MODIFIED, SignalHeaders),
      ImmediateHttpResponse(UnencodableResource, NOT_MODIFIED, <<>>),
      ValidationError(TRUE),
      ValidationError(FALSE),
      NotImplementedError,
      ValueError }

\* What a hook outside dispatch_operation's try block may raise: the
\* handlers there catch Exception and never look at its class.
RaisableOutside ==
    { ImmediateHttpResponse(NoneResource, NOT_MODIFIED, SignalHeaders),
      ValueError }

(* ---------------------------------------------------------- HttpResponse *)

NoBody == [kind |-> "none", text |-> "", data |-> NoneResource]
TextBody(text) == [kind |-> "text", text |-> text, data |-> NoneResource]
\* response_codec.dumps(body)
Dumps(codec, res) == [kind |-> "encoded", text |-> codec, data |-> res]

\* HttpResponse(body, status, headers): headers or {}
HttpResponse(body, st, hdrs) == [body |-> body, status |-> st, headers |-> hdrs]

NoResponse == HttpResponse(NoBody, 0, <<>>)

StatusText(st) ==
    CASE st = UNPROCESSABLE_ENTITY -> "Unprocessable Entity"
      [] st = NOT_ACCEPTABLE -> "URI not available in preferred format"
      [] st = METHOD_NOT_ALLOWED -> "Specified method is invalid for this resource"
      [] OTHER -> "status"

\* from_status losing the headers it is given.
FromStatusWithoutHeaders(http_status, hdrs) ==
    HttpResponse(TextBody(StatusText(http_status)), http_status, <<>>)

\* HttpResponse.from_status(http_status, headers)
FromStatus(http_status, hdrs) == HttpResponse(TextBody(StatusText(http_status)), http_status, hdrs)

\* headers[key] = value
SetHeader(hdrs, key, value) ==
    [h \in (DOMAIN hdrs) \cup {key} |-> IF h = key THEN value ELSE hdrs[h]]

(* -------------------------------------------------------------- requests *)

Methods == {"GET", "POST"}
ContentTypeHeaders == {<<>>, <<XML>>, <<TEXT, "charset=utf8">>}
AcceptsHeaders == {<<>>, <<XML>>}

Requests ==
    [method : Methods, content_type : ContentTypeHeaders, accepts : AcceptsHeaders,
     request_codec : {""}, response_codec : {""}]

NoRequest ==
    [method |-> "GET", content_type |-> <<>>, accepts |-> <<>>,
     request_codec |-> "", response_codec |-> ""]

(* --------------------------------------------------- content negotiation *)

registered_codecs == {JSON}

\* The request type resolved as the response type is: Accept first.
request_type_resolvers_accepts_first ==
    <<"accepts_header", "content_type_header", "specific_default">>

request_type_resolvers == <<"content_type_header", "accepts_header", "specific_default">>
response_type_resolvers == <<"accepts_header", "content_type_header", "specific_default">>

\* No alias is applied.
remap_codecs_unused(t) == t

\* self.remap_codecs.get(t, t)
remap_codecs(t) == IF t = TEXT THEN JSON ELSE t

Resolver(name, req) ==
    CASE name = "content_type_header" -> req.content_type
      [] name = "accepts_header" -> req.accepts
      [] name = "specific_default" -> <<JSON>>

\* value.split(';')[0].strip(), '' for a missing value
parse_content_type(value) == IF value = <<>> THEN "" ELSE value[1]

RECURSIVE resolve_content_type(_, _)
resolve_content_type(type_resolvers, req) ==
    IF type_resolvers = <<>> THEN ""
    ELSE LET content_type == parse_content_type(Resolver(Head(type_resolvers), req))
         IN  IF content_type # "" THEN content_type
             ELSE resolve_content_type(Tail(type_resolvers), req)

(* ------------------------------------------------------------------ Init *)

\* Lists of at most n middleware objects.
MiddlewareLists(n) ==
    UNION {[1..k -> MiddlewareClasses] : k \in 0..n}

\* Operation(callback, methods=..., middleware=...): the middleware given,
\* then the operation itself.
Operation(methods, mw, hooks) ==
    [methods |-> methods, middleware |-> Append(mw, OperationSelf(hooks))]

OperationMethods == {<<"POST", "PATCH">>}

\* Operation.__init__: binding = None, and the middleware of an Operation
\* built without middleware is the list of the operation itself, written 0.
Unbound == [binding |-> 0, middleware |-> <<0>>]

NotExecuted == [operation |-> -1, self |-> 0]

HookNames ==
    {"pre_request", "pre_dispatch", "post_dispatch", "handle_500",
     "post_request"}

\* A lazy_property that has not been read: nothing is stored on the
\* instance.  size is the length of the list when the value was computed;
\* the program does not keep it, the properties are stated with it.
NotCached == [set |-> FALSE, value |-> <<>>, size |-> 0]

\* No class has been declared and no Operation created.
ApiIdle ==
    /\ operation_count = 0
    /\ classes = <<>>
    /\ swagger_operations = <<>>
    /\ instances = <<>>
    /\ bound = [k \in 0..(MaxOperations - 1) |-> Unbound]
    /\ executed = NotExecuted
    /\ cache = [hook \in HookNames |-> NotCached]

NoCall == [function |-> "none"]
NoResult == [kind |-> "none"]
Returned(value) == [kind |-> "returned", value |-> value]
Raised(error) == [kind |-> "raised", error |-> error]

\* No library function is being called.
CallIdle ==
    /\ call = NoCall
    /\ result = NoResult

Init ==
    /\ ApiIdle
    /\ CallIdle
    /\ middleware \in MiddlewareLists(MaxMiddleware)
    /\ \E mw \in MiddlewareLists(MaxMiddleware - Len(middleware)) :
       \E methods \in OperationMethods, hooks \in OperationHooks :
            operation = Operation(methods, mw, hooks)
    /\ debug_enabled \in BOOLEAN
    /\ request = NoRequest
    /\ pc = "idle"
    /\ i = 1
    /\ ret = "none"
    /\ path_args = {}
    /\ resource = NoneResource
    /\ status = 0
    /\ headers = <<>>
    /\ response = NoResponse
    /\ exc = NoException
    /\ exception = NoException
    /\ calls = <<>>
    /\ outcome = "none"


(* ------------------------------------------------------- program counter *)

Call(hook, owner, id) == [hook |-> hook, owner |-> owner, id |-> id]

\* The hook sequence the for-loop at program point p iterates over.
HooksAt(p) ==
    CASE p = "pre_request" -> pre_request(middleware)
      [] p = "pre_dispatch" -> pre_dispatch(middleware)
      [] p = "op_pre_dispatch" -> pre_dispatch(operation.middleware)
      [] p = "op_post_dispatch" -> post_dispatch(operation.middleware)
      [] p = "post_dispatch" -> post_dispatch(middleware)
      [] p = "post_request" -> post_request(middleware)
      [] p = "handle_500" -> handle_500(middleware)
      [] OTHER -> <<>>

LoopPoints ==
    {"pre_request", "pre_dispatch", "op_pre_dispatch", "op_post_dispatch",
     "post_dispatch", "post_request"}

\* dispatch_operation calling the callback directly instead of the Operation.
AfterSkipsOperationHooks(p) ==
    CASE p = "pre_request" -> "negotiate"
      [] p = "pre_dispatch" -> "execute"
      [] p = "op_pre_dispatch" -> "execute"
      [] p = "op_post_dispatch" -> "post_dispatch"
      [] p = "post_dispatch" -> "encode"
      [] p = "post_request" -> "return"

\* dispatch calling dispatch_operation instead of _dispatch.
AfterSkipsNegotiation(p) ==
    CASE p = "pre_request" -> "pre_dispatch"
      [] p = "pre_dispatch" -> "op_pre_dispatch"
      [] p = "op_pre_dispatch" -> "execute"
      [] p = "op_post_dispatch" -> "post_dispatch"
      [] p = "post_dispatch" -> "encode"
      [] p = "post_request" -> "return"

\* The statement that follows the for-loop at p.
After(p) ==
    CASE p = "pre_request" -> "negotiate"
      [] p = "pre_dispatch" -> "op_pre_dispatch"
      [] p = "op_pre_dispatch" -> "execute"
      [] p = "op_post_dispatch" -> "post_dispatch"
      [] p = "post_dispatch" -> "encode"
      [] p = "post_request" -> "return"

\* Control at loop p, index k: leave every loop that is exhausted.
RECURSIVE Advance(_, _)
Advance(p, k) ==
    IF p \in LoopPoints /\ k > Len(HooksAt(p)) THEN Advance(After(p), 1) ELSE <<p, k>>

Goto(p, k) ==
    /\ pc' = Advance(p, k)[1]
    /\ i' = Advance(p, k)[2]

(* --------------------------------------------------------------- actions *)

\* ApiInterfaceBase.dispatch is entered with a request.
BeginDispatch ==
    /\ pc = "idle"
    /\ \E req \in Requests : request' = req
    /\ Goto("pre_request", 1)
    /\ UNCHANGED <<libvars, middleware, operation, debug_enabled, ret, path_args, resource,
                   status, headers, response, exc, exception, calls, outcome>>

\* dispatch: for middleware in self.middleware.pre_request
CallPreRequest ==
    /\ pc = "pre_request"
    /\ calls' = Append(calls, Call("pre_request", "interface", HooksAt(pc)[i]))
    /\ \/ /\ Goto("pre_request", i + 1)
          /\ UNCHANGED exc
       \/ /\ \E e \in RaisableOutside : exc' = e
          /\ pc' = "dispatch_except"
          /\ i' = 1
    /\ UNCHANGED <<libvars, middleware, operation, debug_enabled, request, ret, path_args,
                   resource, status, headers, response, exception, outcome>>

\* _dispatch up to the call of dispatch_operation: the request and response
\* content types and the method check.
Negotiate ==
    /\ pc = "negotiate"
    /\ LET request_type == remap_codecs(resolve_content_type(request_type_resolvers, request))
           response_type == remap_codecs(resolve_content_type(response_type_resolvers, request))
       IN  IF request_type \notin registered_codecs
           THEN /\ response' = FromStatus(UNPROCESSABLE_ENTITY, <<>>)
                /\ request' = request
                /\ calls' = Append(calls, Call("negotiate", "stage", 0))
                /\ Goto("post_request", 1)
           ELSE IF response_type \notin registered_codecs
           THEN /\ response' = FromStatus(NOT_ACCEPTABLE, <<>>)
                /\ request' = [request EXCEPT !.request_codec = request_type]
                /\ calls' = Append(calls, Call("negotiate", "stage", 0))
                /\ Goto("post_request", 1)
           ELSE IF request.method \notin Range(operation.methods)
           THEN /\ response' = FromStatus(METHOD_NOT_ALLOWED,
                                          [h \in {"Allow"} |-> operation.methods])
                /\ request' = [request EXCEPT !.request_codec = request_type,
                                              !.response_codec = response_type]
                /\ calls' = calls \o <<Call("negotiate", "stage", 0),
                                        Call("method_check", "stage", 0)>>
                /\ Goto("post_request", 1)
           ELSE /\ response' = response
                /\ request' = [request EXCEPT !.request_codec = request_type,
                                              !.response_codec = response_type]
                /\ calls' = calls \o <<Call("negotiate", "stage", 0),
                                        Call("method_check", "stage", 0)>>
                /\ Goto("pre_dispatch", 1)
    /\ UNCHANGED <<libvars, middleware, operation, debug_enabled, ret, path_args, resource,
                   status, headers, exc, exception, outcome>>

\* A hook or the callback raises inside dispatch_operation's try block.
RaiseInOperation ==
    /\ \E e \in Raisable : exc' = e
    /\ pc' = "operation_except"
    /\ i' = 1

\* dispatch_operation: for middleware in self.middleware.pre_dispatch
CallPreDispatch ==
    /\ pc = "pre_dispatch"
    /\ calls' = Append(calls, Call("pre_dispatch", "interface", HooksAt(pc)[i]))
    /\ \/ /\ path_args' = path_args \cup {<<"interface", HooksAt(pc)[i]>>}
          /\ Goto("pre_dispatch", i + 1)
          /\ UNCHANGED exc
       \/ /\ RaiseInOperation
          /\ UNCHANGED path_args
    /\ UNCHANGED <<libvars, middleware, operation, debug_enabled, request, ret, resource,
                   status, headers, response, exception, outcome>>

\* Operation.__call__: for middleware in self.middleware.pre_dispatch
CallOpPreDispatch ==
    /\ pc = "op_pre_dispatch"
    /\ calls' = Append(calls, Call("pre_dispatch", "operation", HooksAt(pc)[i]))
    /\ \/ /\ path_args' = path_args \cup {<<"operation", HooksAt(pc)[i]>>}
          /\ Goto("op_pre_dispatch", i + 1)
          /\ UNCHANGED exc
       \/ /\ RaiseInOperation
          /\ UNCHANGED path_args
    /\ UNCHANGED <<libvars, middleware, operation, debug_enabled, request, ret, resource,
                   status, headers, response, exception, outcome>>

CallbackResults ==
    {NoneResource, DataResource, EmptyListResource, UnencodableResource, HttpResponseResource}

\* Operation.__call__: response = self.execute(request, **path_args)
Execute ==
    /\ pc = "execute"
    /\ calls' = Append(calls, Call("callback", "operation", 0))
    /\ \/ /\ \E r \in CallbackResults : resource' = [r EXCEPT !.args = path_args]
          /\ Goto("op_post_dispatch", 1)
          /\ UNCHANGED exc
       \/ /\ RaiseInOperation
          /\ UNCHANGED resource
    /\ UNCHANGED <<libvars, middleware, operation, debug_enabled, request, ret, path_args,
                   status, headers, response, exception, outcome>>

\* The post_dispatch loop handing every hook the callback's own result.
CallOpPostDispatchOfCallbackResult ==
    /\ pc = "op_post_dispatch"
    /\ calls' = Append(calls, Call("post_dispatch", "operation", HooksAt(pc)[i]))
    /\ \/ /\ resource' = [resource EXCEPT !.via = <<<<"operation", HooksAt(pc)[i]>>>>]
          /\ Goto("op_post_dispatch", i + 1)
          /\ UNCHANGED exc
       \/ /\ RaiseInOperation
          /\ UNCHANGED resource
    /\ UNCHANGED <<libvars, middleware, operation, debug_enabled, request, ret, path_args,
                   status, headers, response, exception, outcome>>

\* Operation.__call__: for middleware in self.middleware.post_dispatch
CallOpPostDispatch ==
    /\ pc = "op_post_dispatch"
    /\ calls' = Append(calls, Call("post_dispatch", "operation", HooksAt(pc)[i]))
    /\ \/ /\ resource' = [resource EXCEPT !.via = Append(@, <<"operation", HooksAt(pc)[i]>>)]
          /\ Goto("op_post_dispatch", i + 1)
          /\ UNCHANGED exc
       \/ /\ RaiseInOperation
          /\ UNCHANGED resource
    /\ UNCHANGED <<libvars, middleware, operation, debug_enabled, request, ret, path_args,
                   status, headers, response, exception, outcome>>

\* dispatch_operation: for middleware in self.middleware.post_dispatch
CallPostDispatch ==
    /\ pc = "post_dispatch"
    /\ calls' = Append(calls, Call("post_dispatch", "interface", HooksAt(pc)[i]))
    /\ \/ /\ resource' = [resource EXCEPT !.via = Append(@, <<"interface", HooksAt(pc)[i]>>)]
          /\ Goto("post_dispatch", i + 1)
          /\ UNCHANGED exc
       \/ /\ RaiseInOperation
          /\ UNCHANGED resource
    /\ UNCHANGED <<libvars, middleware, operation, debug_enabled, request, ret, path_args,
                   status, headers, response, exception, outcome>>

\* handle_500 hands its resource back to the caller it was entered from.
\*   dispatch_operation: return resource, resource.status, None
\*   dispatch:           the resource is dropped;
\*                       return HttpResponse("Error processing response.", 500)
Handle500Returns(res) ==
    IF ret = "dispatch_operation"
    THEN /\ resource' = res
         /\ status' = res.status
         /\ headers' = <<>>
         /\ pc' = "encode"
         /\ i' = 1
         /\ UNCHANGED <<response, outcome>>
    ELSE /\ response' = HttpResponse(TextBody("Error processing response."),
                                     INTERNAL_SERVER_ERROR, <<>>)
         /\ outcome' = "returned"
         /\ pc' = "done"
         /\ i' = 1
         /\ UNCHANGED <<resource, status, headers>>

\* Error.from_status(INTERNAL_SERVER_ERROR, 0, "An unhandled error has been caught.")
GenericError == ErrorFromStatus(INTERNAL_SERVER_ERROR, "An unhandled error has been caught.")

\* What a middleware handle_500 hook may return: nothing, or a resource.
Handle500Results ==
    {NoneResource, EmptyListResource, ErrorFromStatus(SEE_OTHER, "Quick over there...")}

\* The except clauses with the statuses of the last two exchanged.
ExceptionResultExchanged(e) ==
    IF e.kind = "ImmediateHttpResponse"
    THEN [resource |-> e.resource, status |-> e.status, headers |-> e.headers]
    ELSE IF e.kind = "ValidationError"
    THEN [resource |-> ErrorFromStatus(NOT_IMPLEMENTED, "The method has not been implemented"),
          status |-> NOT_IMPLEMENTED, headers |-> <<>>]
    ELSE [resource |-> ErrorFromStatus(BAD_REQUEST, "Failed validation"),
          status |-> BAD_REQUEST, headers |-> <<>>]

\* handle_500 taking every value that is not None.
Handle500AcceptsNotNone(res) == res.kind # "None"

\* handle_500: if resource
Handle500Accepts(res) == Truthy(res)

\* dispatch_operation's except clauses for ImmediateHttpResponse,
\* ValidationError and NotImplementedError: the (resource, status, headers)
\* each returns.
ExceptionResult(e) ==
    IF e.kind = "ImmediateHttpResponse"
    THEN [resource |-> e.resource, status |-> e.status, headers |-> e.headers]
    ELSE IF e.kind = "ValidationError"
    THEN [resource |-> IF e.has_message_dict
                       THEN ErrorFromStatus(BAD_REQUEST, "Failed validation")
                       ELSE ErrorFromStatus(BAD_REQUEST, "str(e)"),
          status |-> BAD_REQUEST, headers |-> <<>>]
    ELSE [resource |-> ErrorFromStatus(NOT_IMPLEMENTED, "The method has not been implemented"),
          status |-> NOT_IMPLEMENTED, headers |-> <<>>]

MappedKinds == {"ImmediateHttpResponse", "ValidationError", "NotImplementedError"}

\* dispatch_operation's except clauses, in the order they are written.
MapException ==
    /\ pc = "operation_except"
    /\ IF exc.kind \in MappedKinds
       THEN /\ resource' = ExceptionResult(exc).resource
            /\ status' = ExceptionResult(exc).status
            /\ headers' = ExceptionResult(exc).headers
            /\ pc' = "encode"
            /\ calls' = Append(calls, Call("exception_mapping", "stage", 0))
            /\ UNCHANGED <<ret, exception>>
       ELSE IF debug_enabled
       THEN /\ pc' = "dispatch_except"
            /\ calls' = Append(calls, Call("exception_mapping", "stage", 0))
            /\ UNCHANGED <<resource, status, headers, ret, exception>>
       ELSE /\ pc' = "handle_500"
            /\ ret' = "dispatch_operation"
            /\ exception' = exc
            /\ calls' = calls \o <<Call("exception_mapping", "stage", 0),
                                    Call("handle_500", "stage", 0)>>
            /\ UNCHANGED <<resource, status, headers>>
    /\ i' = 1
    /\ UNCHANGED <<libvars, middleware, operation, debug_enabled, request, path_args, response,
                   exc, outcome>>

\* handle_500: for middleware in self.middleware.handle_500.  A hook that
\* raises leaves the loop for the except clause and the generic error.
CallHandle500 ==
    /\ pc = "handle_500"
    /\ i <= Len(HooksAt(pc))
    /\ \/ \E res \in Handle500Results :
            /\ calls' = Append(calls, Call("handle_500", "interface", HooksAt(pc)[i]))
            /\ IF Handle500Accepts(res)
               THEN Handle500Returns(res)
               ELSE /\ i' = i + 1
                    /\ UNCHANGED <<pc, resource, status, headers, response, outcome>>
            /\ UNCHANGED exception
       \/ /\ calls' = calls \o <<Call("handle_500", "interface", HooksAt(pc)[i]),
                                  Call("handle_500_fallback", "stage", 0)>>
          /\ \E e \in RaisableOutside : exception' = e
          /\ Handle500Returns(GenericError)
    /\ UNCHANGED <<libvars, middleware, operation, debug_enabled, request, ret, path_args, exc>>

\* handle_500: no hook supplied a resource, fall back to the generic error.
Handle500Fallback ==
    /\ pc = "handle_500"
    /\ i > Len(HooksAt(pc))
    /\ calls' = Append(calls, Call("handle_500_fallback", "stage", 0))
    /\ Handle500Returns(GenericError)
    /\ UNCHANGED <<libvars, middleware, operation, debug_enabled, request, ret, path_args, exc,
                   exception>>

\* create_response testing "if not body" in place of "if body is None".
create_response_tests_truth(req, body, st, hdrs) ==
    IF ~Truthy(body)
    THEN HttpResponse(NoBody, IF st # 0 THEN st ELSE NO_CONTENT, hdrs)
    ELSE HttpResponse(Dumps(req.response_codec, body), IF st # 0 THEN st ELSE OK,
                      SetHeader(hdrs, "Content-Type", <<req.response_codec>>))

\* create_response(request, body, status, headers), the non-raising part.
create_response(req, body, st, hdrs) ==
    IF body.kind = "None"
    THEN HttpResponse(NoBody, IF st # 0 THEN st ELSE NO_CONTENT, hdrs)
    ELSE HttpResponse(Dumps(req.response_codec, body), IF st # 0 THEN st ELSE OK,
                      SetHeader(hdrs, "Content-Type", <<req.response_codec>>))

\* response_codec.dumps(body) raises for a body the codec cannot serialize.
DumpsRaises(body) == body.kind = "unencodable"

\* _dispatch after dispatch_operation returned: a HttpResponse is sent as
\* it is, anything else is encoded by create_response.
Encode ==
    /\ pc = "encode"
    /\ IF resource.kind = "HttpResponse"
       THEN /\ response' = HttpResponse(TextBody(resource.message), resource.status, <<>>)
            /\ calls' = calls
            /\ Goto("post_request", 1)
            /\ UNCHANGED exc
       ELSE IF DumpsRaises(resource)
       THEN /\ exc' = TypeError
            /\ calls' = Append(calls, Call("encode", "stage", 0))
            /\ pc' = "dispatch_except"
            /\ i' = 1
            /\ UNCHANGED response
       ELSE /\ response' = create_response(request, resource, status, headers)
            /\ calls' = Append(calls, Call("encode", "stage", 0))
            /\ Goto("post_request", 1)
            /\ UNCHANGED exc
    /\ UNCHANGED <<libvars, middleware, operation, debug_enabled, request, ret, path_args,
                   resource, status, headers, exception, outcome>>

\* The loop left after its first hook.
CallPostRequestOnlyTheFirst ==
    /\ pc = "post_request"
    /\ calls' = Append(calls, Call("post_request", "interface", HooksAt(pc)[i]))
    /\ \/ /\ response' = [response EXCEPT !.headers = SetHeader(@, "test", <<"header">>)]
          /\ Goto("post_request", Len(HooksAt(pc)) + 1)
          /\ UNCHANGED exc
       \/ /\ \E e \in RaisableOutside : exc' = e
          /\ pc' = "dispatch_except"
          /\ i' = 1
          /\ UNCHANGED response
    /\ UNCHANGED <<libvars, middleware, operation, debug_enabled, request, ret, path_args,
                   resource, status, headers, exception, outcome>>

\* dispatch: for middleware in self.middleware.post_request
CallPostRequest ==
    /\ pc = "post_request"
    /\ calls' = Append(calls, Call("post_request", "interface", HooksAt(pc)[i]))
    /\ \/ /\ response' = [response EXCEPT !.headers = SetHeader(@, "test", <<"header">>)]
          /\ Goto("post_request", i + 1)
          /\ UNCHANGED exc
       \/ /\ \E e \in RaisableOutside : exc' = e
          /\ pc' = "dispatch_except"
          /\ i' = 1
          /\ UNCHANGED response
    /\ UNCHANGED <<libvars, middleware, operation, debug_enabled, request, ret, path_args,
                   resource, status, headers, exception, outcome>>

\* The outer except clause re-raising whatever the debug setting.
DispatchExceptAlwaysRaises ==
    /\ pc = "dispatch_except"
    /\ outcome' = "raised"
    /\ pc' = "done"
    /\ i' = 1
    /\ UNCHANGED <<libvars, middleware, operation, debug_enabled, request, path_args, resource,
                   status, headers, response, exc, ret, exception, calls>>

\* The outer except clause going to handle_500 whatever the debug setting.
DispatchExceptNeverRaises ==
    /\ pc = "dispatch_except"
    /\ pc' = "handle_500"
    /\ ret' = "dispatch"
    /\ exception' = exc
    /\ calls' = Append(calls, Call("handle_500", "stage", 0))
    /\ i' = 1
    /\ UNCHANGED <<libvars, middleware, operation, debug_enabled, request, path_args, resource,
                   status, headers, response, exc, outcome>>

\* dispatch: except Exception as ex
DispatchExcept ==
    /\ pc = "dispatch_except"
    /\ IF debug_enabled
       THEN /\ outcome' = "raised"
            /\ pc' = "done"
            /\ UNCHANGED <<ret, exception, calls>>
       ELSE /\ pc' = "handle_500"
            /\ ret' = "dispatch"
            /\ exception' = exc
            /\ calls' = Append(calls, Call("handle_500", "stage", 0))
            /\ UNCHANGED outcome
    /\ i' = 1
    /\ UNCHANGED <<libvars, middleware, operation, debug_enabled, request, path_args, resource,
                   status, headers, response, exc>>

\* dispatch: else: return response
DispatchReturn ==
    /\ pc = "return"
    /\ outcome' = "returned"
    /\ pc' = "done"
    /\ UNCHANGED <<libvars, middleware, operation, debug_enabled, request, i, ret, path_args,
                   resource, status, headers, response, exc, exception, calls>>

\* dispatch has returned or raised; nothing of the request is kept.
EndDispatch ==
    /\ pc = "done"
    /\ pc' = "idle"
    /\ request' = NoRequest
    /\ i' = 1
    /\ ret' = "none"
    /\ path_args' = {}
    /\ resource' = NoneResource
    /\ status' = 0
    /\ headers' = <<>>
    /\ response' = NoResponse
    /\ exc' = NoException
    /\ exception' = NoException
    /\ calls' = <<>>
    /\ outcome' = "none"
    /\ UNCHANGED <<libvars, middleware, operation, debug_enabled>>

Next ==
    \/ BeginDispatch
    \/ CallPreRequest
    \/ Negotiate
    \/ CallPreDispatch
    \/ CallOpPreDispatch
    \/ Execute
    \/ CallOpPostDispatch
    \/ CallPostDispatch
    \/ MapException
    \/ CallHandle500
    \/ Handle500Fallback
    \/ Encode
    \/ CallPostRequest
    \/ DispatchExcept
    \/ DispatchReturn
    \/ EndDispatch

Spec == Init /\ [][Next]_vars

(* ------------------------------------------------- ResourceApi classes *)

\* An Operation of a class body is the record of the sort_key its
\* constructor gave it.

\* The list as collected, in no particular order.
unsorted(operations) == operations

\* sorted(operations, key=lambda o: o.sort_key); the sort is stable.
sorted(operations) ==
    LET before == [j \in 1..Len(operations) |->
                     Cardinality({k \in 1..Len(operations) :
                        \/ operations[k].sort_key < operations[j].sort_key
                        \/ /\ operations[k].sort_key = operations[j].sort_key
                           /\ k < j})]
    IN  [r \in 1..Len(operations) |->
            operations[CHOOSE j \in 1..Len(operations) : before[j] = r - 1]]

\* Operation.__init__, n times: sort_key = Operation._operation_count, then
\* the count is incremented.  The Operations in the order they are created.
Declared(n) == [k \in 1..n |-> [sort_key |-> operation_count + k - 1]]

\* attrs.values(): the Operations of a class body in the order of the dict,
\* which is any order.
Orderings(S) ==
    {f \in [1..Cardinality(S) -> S] :
        \A a, b \in 1..Cardinality(S) : a # b => f[a] # f[b]}

\* The bases of a class statement: classes declared earlier, the most
\* recently declared first.
RECURSIVE Bases(_)
Bases(S) ==
    IF S = {} THEN <<>>
    ELSE LET b == CHOOSE x \in S : \A y \in S : y <= x
         IN  <<b>> \o Bases(S \ {b})

\* for parent in parents: operations.extend(parent._operations)
RECURSIVE ParentOperations(_)
ParentOperations(parents) ==
    IF parents = <<>> THEN <<>>
    ELSE classes[Head(parents)].operations \o ParentOperations(Tail(parents))

\* ResourceApiMeta.__new__: the class with its _operations table.
ResourceApiMeta(parents, declared, values) ==
    [parents |-> parents, declared |-> declared, attrs |-> values,
     operations |-> sorted(values \o ParentOperations(parents))]

\* An Operation constructed outside of a class body.
CreateOperation ==
    /\ operation_count < MaxOperations
    /\ operation_count' = operation_count + 1
    /\ UNCHANGED <<classes, instance_vars, dispatch_vars, call_vars>>

\* class X(bases): with n Operations declared in its body.
DeclareClass ==
    /\ Len(classes) < MaxClasses
    /\ \E S \in SUBSET (1..Len(classes)), n \in 0..MaxDeclared :
          /\ operation_count + n <= MaxOperations
          /\ \E values \in Orderings(Range(Declared(n))) :
                classes' = Append(classes,
                                  ResourceApiMeta(Bases(S), Declared(n), values))
          /\ operation_count' = operation_count + n
    /\ UNCHANGED <<instance_vars, dispatch_vars, call_vars>>

\* No dispatch is in progress on an interface without middleware.
NoDispatch ==
    /\ middleware = <<>>
    /\ operation = Operation(<<"POST", "PATCH">>, <<>>, {})
    /\ debug_enabled = FALSE
    /\ request = NoRequest
    /\ pc = "idle"
    /\ i = 1
    /\ ret = "none"
    /\ path_args = {}
    /\ resource = NoneResource
    /\ status = 0
    /\ headers = <<>>
    /\ response = NoResponse
    /\ exc = NoException
    /\ exception = NoException
    /\ calls = <<>>
    /\ outcome = "none"

ApiInit ==
    /\ NoDispatch
    /\ ApiIdle
    /\ CallIdle

ApiNext ==
    \/ CreateOperation
    \/ DeclareClass

ApiSpec == ApiInit /\ [][ApiNext]_vars

(* ----------------------------------------------- ResourceApi instances *)

\* SwaggerSpec in the list of instances; a declared class is its index.
SwaggerSpec == 0

\* cls._operations
Table(cls) ==
    IF cls = SwaggerSpec THEN swagger_operations ELSE classes[cls].operations

\* Operation.bind_to_instance: self.binding = instance;
\* self.middleware.append(instance)
bind_to_instance(self, instance) ==
    [binding |-> instance, middleware |-> Append(self.middleware, instance)]

\* for operation in self._operations: operation.bind_to_instance(self)
RECURSIVE BindOperations(_, _, _)
BindOperations(operations, table, instance) ==
    IF table = <<>> THEN operations
    ELSE BindOperations(
            [operations EXCEPT ![Head(table).sort_key] =
                bind_to_instance(@, instance)],
            Tail(table), instance)

\* ResourceApi.__init__ of an instance of a declared class.
ResourceApiInit ==
    /\ Len(instances) < MaxInstances
    /\ \E cls \in 1..Len(classes) :
          /\ instances' = Append(instances, cls)
          /\ bound' = BindOperations(bound, Table(cls), Len(instances) + 1)
    /\ UNCHANGED <<operation_count, classes, swagger_operations, executed,
                   cache, dispatch_vars, call_vars>>

\* The Operations SwaggerSpec.__init__ constructs: get_swagger, and with
\* the ui get_ui and get_static.
SwaggerOperations(enabled, enable_ui) ==
    IF ~enabled THEN <<>>
    ELSE IF ~enable_ui THEN Declared(1)
    ELSE Declared(3)

\* SwaggerSpec.__init__: the Operations are appended to self._operations,
\* which is the list of the class, and then ResourceApi.__init__ runs.
SwaggerSpecInit ==
    /\ Len(instances) < MaxInstances
    /\ \E enabled, enable_ui \in BOOLEAN :
          LET created == SwaggerOperations(enabled, enable_ui)
          IN  /\ operation_count + Len(created) <= MaxOperations
              /\ operation_count' = operation_count + Len(created)
              /\ swagger_operations' = swagger_operations \o created
              /\ instances' = Append(instances, SwaggerSpec)
              /\ bound' = BindOperations(bound, swagger_operations \o created,
                                         Len(instances) + 1)
    /\ UNCHANGED <<classes, executed, cache, dispatch_vars, call_vars>>

\* A request routed through the op_paths of an instance reaches an
\* Operation of the table of its class; Operation.execute calls the
\* callback with self.binding as its first argument.
ExecuteOperation ==
    /\ \E instance \in 1..Len(instances) :
          \E op \in Range(Table(instances[instance])) :
             executed' = [operation |-> op.sort_key,
                          self |-> bound[op.sort_key].binding]
    /\ UNCHANGED <<operation_count, classes, swagger_operations, instances,
                   bound, cache, dispatch_vars, call_vars>>

InstanceNext ==
    \/ CreateOperation
    \/ DeclareClass
    \/ ResourceApiInit
    \/ SwaggerSpecInit
    \/ ExecuteOperation

InstanceSpec == ApiInit /\ [][InstanceNext]_vars

(* ------------------------------------------- the cache of a MiddlewareList *)

\* The CORS instance as a middleware: priority = 1 and post_request.
CORSMiddleware ==
    [name |-> "CORS", has_priority |-> TRUE, priority |-> 1,
     hooks |-> {"post_request"}]

\* What is appended to a list in use: CORS by CORS.__new__, a ResourceApi
\* instance by bind_to_instance, any middleware by the application.
Appended == {MiddlewareB, MiddlewareC, CORSMiddleware}

\* The body of the property of this name.
HookSequence(hook, list) ==
    CASE hook = "pre_request" -> pre_request(list)
      [] hook = "pre_dispatch" -> pre_dispatch(list)
      [] hook = "post_dispatch" -> post_dispatch(list)
      [] hook = "handle_500" -> handle_500(list)
      [] hook = "post_request" -> post_request(list)

\* A plain property: the body is evaluated at every read.
property(entry, hook, list) ==
    [set |-> TRUE, value |-> HookSequence(hook, list),
     size |-> IF entry.set THEN entry.size ELSE Len(list)]

\* @lazy_property: the body is evaluated at the first read and its value
\* is stored on the instance, where every later read finds it.
lazy_property(entry, hook, list) ==
    IF entry.set THEN entry
    ELSE [set |-> TRUE, value |-> HookSequence(hook, list), size |-> Len(list)]

\* list.append(m) on the middleware of the interface.
AppendMiddleware ==
    /\ Len(middleware) < MaxAppended
    /\ \E m \in Appended : middleware' = Append(middleware, m)
    /\ UNCHANGED <<operation, debug_enabled, request, pc, i, ret, path_args,
                   resource, status, headers, response, exc, exception, calls,
                   outcome, libvars>>

\* for hook in self.middleware.<hook>: hook(...)  -- the read of the
\* property, then the call of every method of the sequence read.
ReadHooks ==
    /\ \E hook \in HookNames :
          LET entry == lazy_property(cache[hook], hook, middleware)
          IN  /\ cache' = [cache EXCEPT ![hook] = entry]
              /\ calls' = <<Call(hook, "read", 0)>>
                           \o [k \in 1..Len(entry.value) |->
                                 Call(hook, "interface", entry.value[k])]
    /\ UNCHANGED <<middleware, operation, debug_enabled, request, pc, i, ret,
                   path_args, resource, status, headers, response, exc,
                   exception, outcome, operation_count, classes,
                   swagger_operations, instances, bound, executed, call_vars>>

CacheNext ==
    \/ AppendMiddleware
    \/ ReadHooks

CacheSpec == ApiInit /\ [][CacheNext]_vars

(* --------------------------------------------------------------- UrlPath *)

\* A str is the sequence of its tokens.  A token is one of the characters
\* "/", "{", "}", ":", ".", "+", or a maximal run of word characters: a word
\* (it starts with a letter) or a number.
Words ==
    {"a", "b", "resource_id", "group_id", "key_field", "int",
     "Integer", "String", "Regex"}

Numbers == {"123"}

\* The names of the members of the Type enumeration used here.
TypeNames == {"Integer", "String", "Regex"}

\* [-^$+*:\w\\\[\]\|], the characters of the third group of PATH_NODE_RE
ArgChars == Words \cup Numbers \cup {":", "+"}

\* A node of a UrlPath: a str, or a PathParam(name, type, type_args).  The
\* type is the name of a Type member or "None"; type_args None is <<>>.
Str(text) == [class |-> "str", name |-> text, type |-> "None", type_args |-> <<>>]

PathParam(name, type, type_args) ==
    [class |-> "PathParam", name |-> name, type |-> type, type_args |-> type_args]

\* PathParam.__new__.__defaults__ = (None, Type.Integer, None)
DefaultPathParam(name) == PathParam(name, "Integer", <<>>)

NoPath == <<>>

\* url_path.rstrip('/')
RECURSIVE rstrip(_)
rstrip(text) ==
    IF text # <<>> /\ text[Len(text)] = "/"
    THEN rstrip(SubSeq(text, 1, Len(text) - 1))
    ELSE text

\* text.split('/')
RECURSIVE split(_)
split(text) ==
    IF "/" \notin Range(text) THEN <<text>>
    ELSE LET k == CHOOSE j \in 1..Len(text) :
                     /\ text[j] = "/"
                     /\ \A h \in 1..(j - 1) : text[h] # "/"
         IN  <<SubSeq(text, 1, k - 1)>> \o split(SubSeq(text, k + 1, Len(text)))

\* sep.join(parts)
RECURSIVE join(_, _)
join(sep, parts) ==
    IF parts = <<>> THEN <<>>
    ELSE IF Len(parts) = 1 THEN parts[1]
    ELSE parts[1] \o sep \o join(sep, Tail(parts))

NoMatch == [matched |-> FALSE, name |-> <<>>, param_type |-> <<>>, param_arg |-> <<>>]

Match(name, param_type, param_arg) ==
    [matched |-> TRUE, name |-> name, param_type |-> param_type, param_arg |-> param_arg]

\* PATH_NODE_RE.match(node), the pattern
\*     ^{([a-zA-Z]\w*)(?::([a-zA-Z]\w*))?(?::([-^$+*:\w\\\[\]\|]+))?}$
\* A group that did not take part (None) is <<>>.  The second group is tried
\* before the third.
PATH_NODE_RE(node) ==
    LET n == Len(node)
        inner == SubSeq(node, 4, n - 1)
    IN  IF n < 3 \/ node[1] # "{" \/ node[n] # "}" \/ node[2] \notin Words
        THEN NoMatch
        ELSE IF n = 3 THEN Match(<<node[2]>>, <<>>, <<>>)
        ELSE IF node[3] # ":" \/ inner = <<>> THEN NoMatch
        ELSE IF inner[1] \in Words /\ Len(inner) = 1
        THEN Match(<<node[2]>>, inner, <<>>)
        ELSE IF /\ inner[1] \in Words
                /\ Len(inner) >= 3
                /\ inner[2] = ":"
                /\ \A k \in 3..Len(inner) : inner[k] \in ArgChars
        THEN Match(<<node[2]>>, <<inner[1]>>, SubSeq(inner, 3, Len(inner)))
        ELSE IF \A k \in 1..Len(inner) : inner[k] \in ArgChars
        THEN Match(<<node[2]>>, <<>>, inner)
        ELSE NoMatch

\* UrlPath.parse, the body of the loop: the node of one segment, or the
\* ValueError it raises.
ParseNode(node) ==
    IF "{" \in Range(node) \/ "}" \in Range(node)
    THEN LET m == PATH_NODE_RE(node)
         IN  IF ~m.matched THEN Raised("ValueError")
             ELSE IF m.param_type = <<>>
             THEN Returned(PathParam(m.name, "Integer", m.param_arg))
             ELSE IF m.param_type[1] \in TypeNames
             THEN Returned(PathParam(m.name, m.param_type[1], m.param_arg))
             ELSE Raised("ValueError")
    ELSE Returned(Str(node))

\* UrlPath.parse(url_path)
parse(url_path) ==
    IF url_path = <<>> THEN Returned(NoPath)
    ELSE LET segments == split(rstrip(url_path))
             nodes == [k \in 1..Len(segments) |-> ParseNode(segments[k])]
         IN  IF \E k \in 1..Len(nodes) : nodes[k].kind = "raised"
             THEN Raised("ValueError")
             ELSE Returned([k \in 1..Len(nodes) |-> nodes[k].value])

\* UrlPath.odinweb_node_formatter(path_node)
odinweb_node_formatter(path_node) ==
    LET args == <<path_node.name>>
                \o (IF path_node.type # "None" THEN <<<<path_node.type>>>> ELSE <<>>)
                \o (IF path_node.type_args # <<>> THEN <<path_node.type_args>> ELSE <<>>)
    IN  <<"{">> \o join(<<":">>, args) \o <<"}">>

\* UrlPath.format(), with the default node formatter
format(nodes) ==
    IF nodes = <<Str(<<>>)>> THEN <<"/">>
    ELSE join(<<"/">>,
              [k \in 1..Len(nodes) |->
                  IF nodes[k].class = "PathParam"
                  THEN odinweb_node_formatter(nodes[k])
                  ELSE nodes[k].name])

\* An operand of +, or a path argument: a UrlPath (its nodes), a str (its
\* text), a PathParam (nodes is the 1-tuple of it) or an int.
Operand(class, nodes, text) == [class |-> class, nodes |-> nodes, text |-> text]
UrlPathOperand(nodes) == Operand("UrlPath", nodes, <<>>)
StrOperand(text) == Operand("str", <<>>, text)
PathParamOperand(node) == Operand("PathParam", <<node>>, <<>>)
IntOperand == Operand("int", <<>>, <<>>)

\* _add_nodes(a, b)
add_nodes_never_raises(a, b) == Returned(a \o b)

add_nodes(a, b) ==
    IF b # <<>> /\ b[1] = Str(<<>>) THEN Raised("ValueError")
    ELSE Returned(a \o b)

\* UrlPath.__add__(self, other); NotImplemented is Raised("NotImplemented")
add(self, other) ==
    CASE other.class = "UrlPath" -> add_nodes(self, other.nodes)
      [] other.class = "str" ->
            LET parsed == parse(other.text)
            IN  IF parsed.kind = "raised" THEN parsed
                ELSE add_nodes(self, parsed.value)
      [] other.class = "PathParam" -> add_nodes(self, other.nodes)
      [] OTHER -> Raised("NotImplemented")

\* UrlPath.__radd__(self, other)
radd(self, other) ==
    CASE other.class = "str" ->
            LET parsed == parse(other.text)
            IN  IF parsed.kind = "raised" THEN parsed
                ELSE add_nodes(parsed.value, self)
      [] other.class = "PathParam" -> add_nodes(other.nodes, self)
      [] OTHER -> Raised("NotImplemented")

\* left + right: the left operand's __add__, then the right operand's
\* __radd__, and TypeError when neither is implemented.
Plus(left, right) ==
    LET forward == IF left.class = "UrlPath" THEN add(left.nodes, right)
                   ELSE Raised("NotImplemented")
        backward == IF right.class = "UrlPath" THEN radd(right.nodes, left)
                    ELSE Raised("NotImplemented")
    IN  IF forward # Raised("NotImplemented") THEN forward
        ELSE IF backward # Raised("NotImplemented") THEN backward
        ELSE Raised("TypeError")

\* UrlPath.from_object(obj)
from_object(obj) ==
    CASE obj.class = "UrlPath" -> Returned(obj.nodes)
      [] obj.class = "str" -> parse(obj.text)
      [] obj.class = "PathParam" -> Returned(obj.nodes)
      [] OTHER -> Raised("ValueError")

\* node.name.format(key_field=key_field)
str_format(text, key_field) ==
    IF text = <<"{", "key_field", "}">> THEN <<key_field>> ELSE text

\* UrlPath.apply_args(key_field=key_field)
apply_args(nodes, key_field) ==
    [k \in 1..Len(nodes) |->
        IF nodes[k].class = "PathParam"
        THEN PathParam(str_format(nodes[k].name, key_field),
                       nodes[k].type, nodes[k].type_args)
        ELSE nodes[k]]

(* ------------------------------------------------------------- Operation *)

\* A methods argument: a single Method or a tuple of them.
Method(item) == [class |-> "Method", items |-> <<item>>]
MethodTuple(items) == [class |-> "tuple", items |-> items]

\* force_tuple(methods)
force_tuple(value) ==
    IF value.class = "tuple" THEN value.items ELSE <<value.items[1]>>

\* The resource of an Operation: none, or a Resource class and the attname
\* of its key field ("" when it has none).
NoResource == [name |-> "None", key_field |-> ""]
User == [name |-> "User", key_field |-> ""]
Group == [name |-> "Group", key_field |-> "group_id"]

\* Operation.__init__(callback, path, methods, resource)
OperationInit(callback, path_, methods, resource_) ==
    [class |-> "Operation", callback |-> callback,
     url_path |-> from_object(path_).value, methods |-> force_tuple(methods),
     resource |-> resource_]

\* Operation.key_field_name
key_field_name(self) ==
    IF self.resource # NoResource /\ self.resource.key_field # ""
    THEN self.resource.key_field
    ELSE "resource_id"

\* Operation.path
path(self) == apply_args(self.url_path, key_field_name(self))

\* Operation.__eq__(self, other); NotImplemented is Raised("NotImplemented")
eq_compares_callback(self, other) ==
    IF other.class = "Operation"
    THEN Returned(/\ self.callback = other.callback
                  /\ path(self) = path(other)
                  /\ self.methods = other.methods)
    ELSE Raised("NotImplemented")

eq(self, other) ==
    IF other.class = "Operation"
    THEN Returned(/\ path(self) = path(other)
                  /\ self.methods = other.methods)
    ELSE Raised("NotImplemented")

\* self == other: when __eq__ is not implemented for the pair the objects
\* are compared by identity, and they are distinct objects.
Equals(self, other) ==
    IF eq(self, other) = Raised("NotImplemented") THEN Returned(FALSE)
    ELSE eq(self, other)

(* -------------------------------------------------------------- listings *)

\* Python None, and a value that is not None.
None == [none |-> TRUE, value |-> 0]
Some(value) == [none |-> FALSE, value |-> value]

\* A value of request.GET: the text of a query parameter (the sequence of
\* its characters), or missing.
Missing == [present |-> FALSE, text |-> <<>>]
Text(text) == [present |-> TRUE, text |-> text]

Digits == <<"0", "1", "2", "3", "4", "5", "6", "7", "8", "9">>

RECURSIVE DigitsValue(_)
DigitsValue(text) ==
    IF text = <<>> THEN 0
    ELSE 10 * DigitsValue(SubSeq(text, 1, Len(text) - 1))
         + (CHOOSE d \in 0..9 : Digits[d + 1] = text[Len(text)])

IsDigits(text) == text # <<>> /\ \A k \in 1..Len(text) : text[k] \in Range(Digits)

\* int(text): the number a decimal text denotes, or the ValueError
int(text) ==
    IF IsDigits(text) THEN Returned(DigitsValue(text))
    ELSE IF text # <<>> /\ text[1] = "-" /\ IsDigits(Tail(text))
    THEN Returned(0 - DigitsValue(Tail(text)))
    ELSE Raised("ValueError")

\* int(request.GET.get(name, default))
QueryInt(value, default) ==
    IF value.present THEN int(value.text) ELSE Returned(default)

\* value.upper(), for the texts of the model; such a text is one token
upper(text) ==
    CASE text = <<"true">> -> <<"TRUE">>
      [] text = <<"yes">> -> <<"YES">>
      [] text = <<"false">> -> <<"FALSE">>
      [] OTHER -> text

\* bool(value) of a str: any non-empty text is true.
to_bool_of_str(value) == value.present /\ value.text # <<>>

\* to_bool(request.GET.get('bare', False))
to_bool(value) ==
    /\ value.present
    /\ upper(value.text) \in {<<"Y">>, <<"YES">>, <<"T">>, <<"TRUE">>, <<"1">>, <<"OK">>}

\* if offset < 0: offset = 0
ListingOffset(offset) == IF offset < 0 THEN 0 ELSE offset

\* The limit as it came.
ListingLimitUnclamped(self, limit) == limit

\* if limit < 1: limit = 1 / elif max_limit and limit > max_limit: limit = max_limit
ListingLimit(self, limit) ==
    IF limit < 1 THEN 1
    ELSE IF /\ ~self.max_limit.none
            /\ self.max_limit.value # 0
            /\ limit > self.max_limit.value
    THEN self.max_limit.value
    ELSE limit

\* What a listing callback returns: None, a list, or a tuple; of a tuple
\* the model keeps the length, the first element (a list) and the second
\* (a number or None).
NoneType == [class |-> "NoneType", len |-> 0, items |-> <<>>, second |-> None]
List(items) == [class |-> "list", len |-> Len(items), items |-> items, second |-> None]
Tuple(len, items, second) ==
    [class |-> "tuple", len |-> len, items |-> items, second |-> second]

\* Listing(results, limit, offset, total_count): the fields in their order.
Listing(results, limit, offset, total_count) ==
    [class |-> "Listing", results |-> results, limit |-> limit, offset |-> offset,
     total_count |-> total_count]

\* str(n), kept apart from the number n
str(n) == [str |-> n]

\* The callback has not been called.
NotCalled == [called |-> FALSE, offset |-> 0, limit |-> 0]

\* The keyword arguments execute adds for the callback.
PathArgs(offset, limit) == [called |-> TRUE, offset |-> offset, limit |-> limit]

\* WrappedListOperation.execute, after the callback returned
WrappedListResult(bare, returned, limit, offset) ==
    IF returned.class = "NoneType" THEN NoneType
    ELSE LET is_pair == returned.class = "tuple" /\ returned.len = 2
             items == IF is_pair THEN List(returned.items) ELSE returned
             total_count == IF is_pair THEN returned.second ELSE None
         IN  IF bare THEN items ELSE Listing(items, limit, offset, total_count)

\* ListOperation.execute, after the callback returned: the response made of
\* the items and the paging headers
ListResult(returned, limit, offset) ==
    IF returned.class = "NoneType" THEN NoneType
    ELSE LET is_pair == returned.class = "tuple" /\ returned.len = 2
             items == IF is_pair THEN List(returned.items) ELSE returned
             paging == {<<"X-Page-Limit", str(limit)>>, <<"X-Page-Offset", str(offset)>>}
             total == IF is_pair /\ ~returned.second.none
                      THEN {<<"X-Total-Count", str(returned.second.value)>>}
                      ELSE {}
         IN  [class |-> "HttpResponse", body |-> items, headers |-> paging \cup total]

(* ------------------------------------------------------------------ CORS *)

\* origins: the AnyOrigin class, or set(origins)
AnyOrigin == [class |-> "AnyOrigin", origins |-> {}]
OriginSet(origins) == [class |-> "set", origins |-> origins]

\* ApiInterfaceBase(*containers): the default name 'api', the path prefix
\* UrlPath('', 'api') and an empty MiddlewareList.
ApiInterfaceBase(containers) ==
    [containers |-> containers, path_prefix |-> <<Str(<<>>), Str(<<"api">>)>>,
     middleware |-> <<>>]

\* ApiContainer.op_paths() over containers that are Operations: the pairs
\* (path_prefix + operation.path, operation), in the order of the containers.
op_paths(self) ==
    [n \in 1..Len(self.containers) |->
        [path |-> add_nodes(self.path_prefix, path(self.containers[n])).value,
         operation |-> self.containers[n]]]

\* ApiInterfaceBase.op_paths(collate_methods=True): path -> {method: operation};
\* the keys of the inner dict are kept, the operations are not used by CORS.
op_paths_collated(self) ==
    LET pairs == op_paths(self)
    IN  [p \in {pairs[n].path : n \in DOMAIN pairs} |->
            UNION {Range(pairs[n].operation.methods) :
                     n \in {m \in DOMAIN pairs : pairs[m].path = p}}]

\* path.startswith(prefix), len(prefix) and path.format(separator=...) of a
\* UrlPath, which CORS calls.
startswith(self, other) ==
    Len(other) <= Len(self) /\ SubSeq(self, 1, Len(other)) = other

format_separator(nodes, separator) ==
    join(separator,
         [k \in 1..Len(nodes) |->
             IF nodes[k].class = "PathParam"
             THEN odinweb_node_formatter(nodes[k])
             ELSE nodes[k].name])

\* CORS.__init__ before _register_options
CORSInit(origins, max_age, allow_credentials, expose_headers, allow_headers) ==
    [class |-> "CORS", priority |-> 1, origins |-> origins, max_age |-> max_age,
     allow_credentials |-> allow_credentials, expose_headers |-> expose_headers,
     allow_headers |-> allow_headers]

\* CORS._options_operation(api_interface, path, methods): the interface
\* with the operation api_interface.operation(path, Method.OPTIONS)
\* appended to its containers; cors_methods is the set the callback closes
\* over.
_options_operation(self, api_interface, path_, methods) ==
    LET relative == IF startswith(path_, api_interface.path_prefix)
                    THEN SubSeq(path_, Len(api_interface.path_prefix) + 1, Len(path_))
                    ELSE path_
        registered ==
            OperationInit("_cors_options", UrlPathOperand(relative),
                          Method("OPTIONS"), NoResource)
            @@ [cors_methods |-> methods \cup {"OPTIONS"},
                operation_id |-> format_separator(relative, <<".">>)
                                   \o <<".", "cors_options">>]
    IN  [api_interface EXCEPT !.containers = Append(@, registered)]

\* The loop registering the operation on every path, with or without
\* OPTIONS.
RegisterEveryPath(self, api_interface, table, paths) ==
    LET RECURSIVE Every(_, _)
        Every(interface, rest) ==
            IF rest = <<>> THEN interface
            ELSE Every(_options_operation(self, interface, Head(rest), table[Head(rest)]),
                       Tail(rest))
    IN  Every(api_interface, paths)

\* CORS._register_options(api_interface), the loop over the paths of the
\* collated table: a path without OPTIONS gets the operation.
RECURSIVE RegisterPaths(_, _, _, _)
RegisterPaths(self, api_interface, table, paths) ==
    IF paths = <<>> THEN api_interface
    ELSE IF "OPTIONS" \notin table[Head(paths)]
         THEN RegisterPaths(self,
                            _options_operation(self, api_interface, Head(paths),
                                               table[Head(paths)]),
                            table, Tail(paths))
         ELSE RegisterPaths(self, api_interface, table, Tail(paths))

\* The paths of the collated table in the order of their first operation.
RECURSIVE FirstSeen(_)
FirstSeen(pairs) ==
    IF pairs = <<>> THEN <<>>
    ELSE LET front == FirstSeen(SubSeq(pairs, 1, Len(pairs) - 1))
             last == pairs[Len(pairs)].path
         IN  IF last \in Range(front) THEN front ELSE Append(front, last)

_register_options(self, api_interface) ==
    RegisterPaths(self, api_interface, op_paths_collated(api_interface),
                  FirstSeen(op_paths(api_interface)))

\* CORS.__new__(cls, api_interface, origins, ...): __init__ runs
\* _register_options, then the instance is appended to the middleware of
\* the interface and the interface is returned.
CORSNew(api_interface, instance) ==
    [_register_options(instance, api_interface) EXCEPT !.middleware = Append(@, instance)]

\* CORS.allow_origin(request): '*' is <<"*">>, '' is <<>>
allow_origin(self, request_) ==
    IF self.origins = AnyOrigin THEN <<"*">>
    ELSE IF request_.origin \in self.origins.origins THEN <<request_.origin>>
    ELSE <<>>

\* dict_filter(base, updates): updates whose value is None are dropped
dict_filter(base, updates) ==
    LET kept == {k \in DOMAIN updates : ~updates[k].none}
    IN  [k \in DOMAIN base \cup kept |->
            IF k \in kept THEN updates[k].value ELSE base[k]]

\* {True: 'true', False: 'false'}.get(value); value is "True", "False" or "None"
AllowCredentials(value) ==
    CASE value = "True" -> Some(<<"true">>)
      [] value = "False" -> Some(<<"false">>)
      [] OTHER -> None

\* ', '.join(values) if values else None
JoinedOrNone(values) == IF values # <<>> THEN Some(values) ELSE None

\* CORS.option_headers(request, methods); methods in the order it is iterated
option_headers(self, request_, methods) ==
    LET headers_ == [k \in {"Allow", "Cache-Control"} |->
                        IF k = "Allow" THEN methods ELSE <<"no-cache", "no-store">>]
    IN  IF allow_origin(self, request_) # <<>>
        THEN dict_filter(headers_,
               [k \in {"Access-Control-Allow-Origin", "Access-Control-Allow-Methods",
                       "Access-Control-Allow-Credentials", "Access-Control-Allow-Headers",
                       "Access-Control-Expose-Headers", "Access-Control-Max-Age"} |->
                  CASE k = "Access-Control-Allow-Origin" -> Some(allow_origin(self, request_))
                    [] k = "Access-Control-Allow-Methods" -> Some(methods)
                    [] k = "Access-Control-Allow-Credentials" ->
                          AllowCredentials(self.allow_credentials)
                    [] k = "Access-Control-Allow-Headers" -> JoinedOrNone(self.allow_headers)
                    [] k = "Access-Control-Expose-Headers" -> JoinedOrNone(self.expose_headers)
                    [] OTHER -> IF self.max_age # None /\ self.max_age.value # 0
                                THEN Some(<<str(self.max_age.value)>>) ELSE None])
        ELSE headers_

\* _cors_options(request): methods is set(methods) with OPTIONS added, and a
\* set is iterated in an order the build chooses.
_cors_options(self, request_, methods, order) ==
    HttpResponse(NoBody, NO_CONTENT, option_headers(self, request_, order))

\* CORS.post_request(request, response)
cors_post_request(self, request_, response_) ==
    IF request_.method # "OPTIONS"
    THEN [response_ EXCEPT !.headers =
             SetHeader(@, "Access-Control-Allow-Origin", allow_origin(self, request_))]
    ELSE response_

(* --------------------------------------------------------------- signing *)

\* A query string is the sequence of its (key, value) pairs, a value and a
\* url path are texts (sequences of characters), and the clock counts half
\* seconds, so that time() has a fraction that int() drops.

\* sorted(keys) over the keys of the model
KeyOrder == <<"_", "a", "b", "expires", "signature">>

\* MultiValueDict(parse_qs(query)): the values of each key in their order;
\* parse_qs leaves out the blank values.
parse_qs(query) ==
    [k \in {query[n][1] : n \in {m \in DOMAIN query : query[m][2] # <<>>}} |->
        LET Kept(pair) == pair[1] = k /\ pair[2] # <<>>
            pairs == SelectSeq(query, Kept)
        IN  [n \in 1..Len(pairs) |-> pairs[n][2]]]

\* query_args[key] = value
SetItem(query_args, key, value) ==
    [k \in DOMAIN query_args \cup {key} |->
        IF k = key THEN <<value>> ELSE query_args[k]]

\* query_args.pop(key), the dict that is left
Pop(query_args, key) == [k \in DOMAIN query_args \ {key} |-> query_args[k]]

\* MultiValueDict.sorteditems(multi=True)
RECURSIVE SortedItemsOf(_, _)
SortedItemsOf(query_args, keys) ==
    IF keys = <<>> THEN <<>>
    ELSE (IF Head(keys) \in DOMAIN query_args
          THEN [n \in 1..Len(query_args[Head(keys)]) |->
                   <<Head(keys), query_args[Head(keys)][n]>>]
          ELSE <<>>)
         \o SortedItemsOf(query_args, Tail(keys))

sorteditems(query_args) == SortedItemsOf(query_args, KeyOrder)

\* '&'.join('%s=%s' % i for i in items)
RECURSIVE JoinItems(_)
JoinItems(items) ==
    IF items = <<>> THEN <<>>
    ELSE <<items[1][1], "=">> \o items[1][2]
         \o (IF Len(items) > 1 THEN <<"&">> ELSE <<>>) \o JoinItems(Tail(items))

\* hmac.new(secret_key, msg).digest(), encoded: two digests are equal when
\* their keys and their messages are.
hmac(secret_key, msg) == <<"hmac", secret_key>> \o msg

\* _generate_signature(url_path, secret_key, query_args)
_generate_signature(url_path, secret_key, query_args) ==
    hmac(secret_key, url_path \o <<"?">> \o JoinItems(sorteditems(query_args)))

\* str(n) for n >= 0, as a text
RECURSIVE Decimal(_)
Decimal(n) ==
    IF n < 10 THEN <<Digits[n + 1]>>
    ELSE Decimal(n \div 10) \o <<Digits[(n % 10) + 1]>>

\* sign_url_path(url, secret_key, expire_in) at the time now, token()
\* returning salt
sign_url_path(url, secret_key, expire_in, now, salt) ==
    LET parsed == parse_qs(url.query)
        salted == SetItem(parsed, "_", salt)
        expiring == IF expire_in # None
                    THEN SetItem(salted, "expires",
                                 Decimal((now + 2 * expire_in.value) \div 2))
                    ELSE salted
        signed == SetItem(expiring, "signature",
                          _generate_signature(url.path, secret_key, expiring))
    IN  [path |-> url.path, query |-> sorteditems(signed)]

SigningError(message) == [kind |-> "raised", error |-> "SigningError", message |-> message]

\* The check of the expiry in verify_url_path, query_args holding 'expires'
CheckExpiry(query_args, max_expiry, clock) ==
    LET expiry_time == int(query_args["expires"][Len(query_args["expires"])])
    IN  IF expiry_time.kind = "raised" THEN SigningError("Invalid expiry value.")
        ELSE IF 2 * expiry_time.value - clock < 0
        THEN SigningError("Signature has expired.")
        ELSE IF /\ max_expiry # None /\ max_expiry.value # 0
                /\ 2 * expiry_time.value - clock > 2 * max_expiry.value
        THEN SigningError("Expiry time out of range.")
        ELSE Returned(TRUE)

\* verify_url_path(url_path, query_args, secret_key, salt_arg, max_expiry)
\* when time() returns clock
verify_url_path(url_path, query_args, secret_key, salt_arg, max_expiry, clock) ==
    IF "signature" \notin DOMAIN query_args THEN SigningError("Signature missing.")
    ELSE LET supplied_signature == query_args["signature"][Len(query_args["signature"])]
             popped == Pop(query_args, "signature")
         IN  IF salt_arg # "None" /\ salt_arg \notin DOMAIN popped
             THEN SigningError("No salt used.")
             ELSE IF max_expiry # None /\ "expires" \notin DOMAIN popped
             THEN SigningError("Expiry time is required.")
             ELSE IF _generate_signature(url_path, secret_key, popped) # supplied_signature
             THEN SigningError("Signature not valid.")
             ELSE IF "expires" \notin DOMAIN popped THEN Returned(TRUE)
             ELSE CheckExpiry(popped, max_expiry, clock)

\* verify_url(url, secret_key, **kwargs)
verify_url(url, secret_key, salt_arg, max_expiry, clock) ==
    verify_url_path(url.path, parse_qs(url.query), secret_key, salt_arg, max_expiry, clock)

PermissionDenied(message) ==
    [kind |-> "raised", error |-> "PermissionDenied", message |-> message]

\* SignedAuthBase.pre_dispatch(request, path_args); secret_key is what
\* get_secret_key returned, "" for None
signed_pre_dispatch(request_, secret_key, clock) ==
    IF secret_key = "" THEN PermissionDenied("Signature not valid.")
    ELSE LET verified == verify_url_path(request_.path, request_.GET, secret_key,
                                         "_", None, clock)
         IN  IF verified.kind = "raised" THEN PermissionDenied(verified.message)
             ELSE Returned(None)

(* ------------------------------------------------- calls of the library *)

\* The nodes the paths of the model are built from.
PathNames == {<<"b">>, <<"{", "key_field", "}">>}
PathTypes == {"Integer", "Regex", "None"}
PathTypeArgs == {<<>>, <<"a", "+">>, <<".", "+">>}

PathNodes ==
    {Str(<<>>), Str(<<"a">>)}
    \cup {PathParam(name, type, type_args) :
            name \in PathNames, type \in PathTypes, type_args \in PathTypeArgs}

\* The UrlPaths of at most n nodes out of the set nodes.
UrlPaths(nodes, n) == UNION {[1..k -> nodes] : k \in 0..n}

\* The operands of the additions of the model.
AddNodes == {Str(<<>>), Str(<<"a">>), DefaultPathParam(<<"b">>)}

LeftOperands ==
    {UrlPathOperand(nodes) : nodes \in UrlPaths(AddNodes, MaxNodes)}
    \cup {StrOperand(text) : text \in {<<"a", "/", "b">>, <<"/", "a">>}}
    \cup {PathParamOperand(DefaultPathParam(<<"b">>)), IntOperand}

\* The Operations of the model.
OperationPaths ==
    {UrlPathOperand(NoPath),
     PathParamOperand(DefaultPathParam(<<"{", "key_field", "}">>)),
     StrOperand(<<"{", "resource_id", "}">>),
     StrOperand(<<"{", "group_id", "}">>),
     StrOperand(<<"a">>)}

OperationMethodArgs ==
    {Method("GET"), MethodTuple(<<"GET">>),
     MethodTuple(<<"POST", "PUT">>), MethodTuple(<<"PUT", "POST">>)}

Operations ==
    {OperationInit(callback, path_, methods, resource_) :
        callback \in {"f", "g"}, path_ \in OperationPaths,
        methods \in OperationMethodArgs, resource_ \in {NoResource, User, Group}}

\* The header values of the requests whose types are resolved: missing, a
\* type, a type with a parameter, and a parameter without a type ("; q=1").
HeaderValues == {<<>>, <<JSON>>, <<XML>>, <<TEXT, "charset=utf8">>, <<"", "q=1">>}

ResolvedRequests ==
    [method : {"GET"}, content_type : HeaderValues, accepts : HeaderValues,
     request_codec : {""}, response_codec : {""}]

\* self.registered_codecs[content_type], or the KeyError
Codec(content_type) ==
    IF content_type \in registered_codecs THEN content_type ELSE "KeyError"

\* The listing operations of the model and the queries they execute.
ListOperations ==
    [class : {"WrappedListOperation", "ListOperation"},
     default_offset : {default_offset, -1},
     default_limit : {default_limit, 0},
     max_limit : {None, Some(-1), Some(0), Some(2), Some(100)}]

Queries ==
    [offset : {Missing, Text(<<"-", "1">>), Text(<<"0">>), Text(<<"1", "0">>), Text(<<"x">>)},
     limit : {Missing, Text(<<"-", "1">>), Text(<<"0">>), Text(<<"1">>), Text(<<"2">>),
              Text(<<"3">>), Text(<<"1", "0", "2">>)},
     bare : {Missing, Text(<<"true">>), Text(<<"F">>), Text(<<"1">>)}]

\* What the callback returns.
CallbackReturns ==
    {NoneType, List(<<1, 2, 3>>), List(<<>>),
     Tuple(2, <<1, 2, 3>>, Some(5)), Tuple(3, <<1, 2, 3>>, Some(5))}

\* The calls of the model: self == other for two Operations or an Operation
\* and another object, p.format() followed by UrlPath.parse of the text,
\* left + right, the resolution of the types of a request, and the execute
\* of a listing operation.
\* The interfaces CORS is applied to: at most two operations on the paths
\* a and b, with and without an OPTIONS operation of their own.
CorsOperations ==
    {OperationInit("f", StrOperand(path_), methods, NoResource) :
        path_ \in {<<"a">>, <<"b">>},
        methods \in {MethodTuple(<<"GET", "HEAD">>), Method("POST"),
                     Method("OPTIONS"), MethodTuple(<<"GET", "OPTIONS">>)}}

CorsInterfaces == {ApiInterfaceBase(containers) : containers \in UrlPaths(CorsOperations, 2)}

MyDomain == "http://my-domain.org"
MyAltDomain == "http://my-alt-domain.org"

OriginsArgs == {AnyOrigin, OriginSet({MyDomain, MyAltDomain}), OriginSet({MyAltDomain})}

CorsInstances ==
    {CORSInit(origins, max_age, allow_credentials, expose_headers, allow_headers) :
        origins \in OriginsArgs, max_age \in {None, Some(20)},
        allow_credentials \in {"None", "True", "False"},
        expose_headers \in {<<>>, <<"X-Custom-A", "X-Custom-C">>},
        allow_headers \in {<<>>, <<"X-Custom-B">>}}

DefaultCorsInstances ==
    {CORSInit(origins, None, "None", <<>>, <<>>) : origins \in OriginsArgs}

\* The requests CORS sees: the method and the Origin header ("None": absent).
CorsRequests == [method : {"GET", "OPTIONS"}, origin : {MyDomain, "None"}]

MethodOrders == {<<"GET", "HEAD">>, <<"GET", "HEAD", "OPTIONS">>, <<"OPTIONS", "HEAD", "GET">>}

\* The urls that are signed: a path and a query with a repeated key, a
\* blank value, a value holding '&' and '=', and keys that signing sets.
SignUrls ==
    [path : {<<"/", "p">>},
     query : {<<>>, <<<<"a", <<"1">>>>, <<"b", <<"2">>>>>>,
              <<<<"a", <<"1">>>>, <<"a", <<"3">>>>>>,
              <<<<"a", <<"1", "&", "b", "=", "2">>>>>>,
              <<<<"a", <<>>>>>>,
              <<<<"expires", <<"z", "z">>>>>>,
              <<<<"signature", <<"x">>>>>>}]

SecretKeys == {"DEADBEEF", "other"}

\* The urls a url queried with query can be changed into: a pair removed,
\* a pair added, the value of a pair changed, and a value holding
\* '&key=' taken apart into two pairs.
Without(query, n) == SubSeq(query, 1, n - 1) \o SubSeq(query, n + 1, Len(query))

SplitPair(pair) ==
    {<<<<pair[1], SubSeq(pair[2], 1, j - 1)>>,
       <<pair[2][j + 1], SubSeq(pair[2], j + 3, Len(pair[2]))>>>> :
        j \in {k \in 1..(Len(pair[2]) - 2) :
                 /\ pair[2][k] = "&" /\ pair[2][k + 2] = "="
                 /\ pair[2][k + 1] \in Range(KeyOrder)}}

Tampered(query) ==
    {Without(query, n) : n \in DOMAIN query}
    \cup {Append(query, <<"b", <<"9">>>>)}
    \cup {[query EXCEPT ![n] = <<query[n][1], <<"9">>>>] : n \in DOMAIN query}
    \cup UNION {{SubSeq(query, 1, n - 1) \o pairs \o SubSeq(query, n + 1, Len(query)) :
                   pairs \in SplitPair(query[n])} : n \in DOMAIN query}

CallInit ==
    /\ NoDispatch
    /\ ApiIdle
    /\ result = NoResult
    /\ \/ \E self \in Operations, other \in Operations \cup {IntOperand} :
             call = [function |-> "Operation.__eq__", self |-> self, other |-> other]
       \/ \E self \in UrlPaths(PathNodes, MaxNodes) :
             call = [function |-> "UrlPath.format", self |-> self]
       \/ \E left \in LeftOperands, right \in LeftOperands :
             /\ "UrlPath" \in {left.class, right.class}
             /\ call = [function |-> "+", left |-> left, right |-> right]
       \/ \E req \in ResolvedRequests :
             call = [function |-> "resolve_content_type", request |-> req]
       \/ \E self \in ListOperations, query \in Queries, returns \in CallbackReturns :
             call = [function |-> "execute", self |-> self, query |-> query,
                     returns |-> returns, path_args |-> NotCalled]
       \/ \E url \in SignUrls, expire_in \in {None, Some(0), Some(1)}, now \in 0..1 :
             call = [function |-> "sign_url_path", url |-> url,
                     secret_key |-> "DEADBEEF", expire_in |-> expire_in,
                     now |-> now, salt |-> <<"T">>]
       \/ \E api_interface \in CorsInterfaces, self \in DefaultCorsInstances :
             call = [function |-> "CORS", api_interface |-> api_interface,
                     self |-> self]
       \/ \E self \in CorsInstances, req \in CorsRequests, methods \in MethodOrders :
             call = [function |-> "CORS.option_headers", self |-> self,
                     request |-> req, methods |-> methods]
       \/ \E self \in DefaultCorsInstances, req \in CorsRequests :
             call = [function |-> "CORS.post_request", self |-> self,
                     request |-> req, response |-> HttpResponse(NoBody, OK, <<>>)]

\* self == other
CompareOperations ==
    /\ call.function = "Operation.__eq__"
    /\ result = NoResult
    /\ result' = Equals(call.self, call.other)
    /\ UNCHANGED <<call, dispatch_vars, api_vars>>

\* self.format()
FormatPath ==
    /\ call.function = "UrlPath.format"
    /\ result = NoResult
    /\ result' = Returned(format(call.self))
    /\ UNCHANGED <<call, dispatch_vars, api_vars>>

\* UrlPath.parse(text) of the text self.format() returned
ParsePath ==
    /\ call.function = "UrlPath.format"
    /\ result.kind = "returned"
    /\ call' = [function |-> "UrlPath.parse", url_path |-> result.value,
                self |-> call.self]
    /\ result' = parse(result.value)
    /\ UNCHANGED <<dispatch_vars, api_vars>>

\* left + right
AddPaths ==
    /\ call.function = "+"
    /\ result = NoResult
    /\ result' = Plus(call.left, call.right)
    /\ UNCHANGED <<call, dispatch_vars, api_vars>>

\* _dispatch, its first lines: the request and the response type are
\* resolved, remapped and looked up in the registered codecs.
ResolveTypes ==
    /\ call.function = "resolve_content_type"
    /\ result = NoResult
    /\ LET request_type == resolve_content_type(request_type_resolvers, call.request)
           response_type == resolve_content_type(response_type_resolvers, call.request)
       IN  result' = Returned([request_type |-> request_type,
                               request_codec |-> Codec(remap_codecs(request_type)),
                               response_type |-> response_type,
                               response_codec |-> Codec(remap_codecs(response_type))])
    /\ UNCHANGED <<call, dispatch_vars, api_vars>>

\* WrappedListOperation.execute and ListOperation.execute
ExecuteListing ==
    /\ call.function = "execute"
    /\ result = NoResult
    /\ LET offset == QueryInt(call.query.offset, call.self.default_offset)
           limit == QueryInt(call.query.limit, call.self.default_limit)
       IN  IF offset.kind = "raised" \/ limit.kind = "raised"
           THEN /\ result' = Raised("ValueError")
                /\ call' = call
           ELSE LET offset_ == ListingOffset(offset.value)
                    limit_ == ListingLimit(call.self, limit.value)
                IN  /\ call' = [call EXCEPT !.path_args = PathArgs(offset_, limit_)]
                    /\ result' =
                          Returned(IF call.self.class = "WrappedListOperation"
                                   THEN WrappedListResult(to_bool(call.query.bare),
                                                          call.returns, limit_, offset_)
                                   ELSE ListResult(call.returns, limit_, offset_))
    /\ UNCHANGED <<dispatch_vars, api_vars>>

\* CORS(api_interface, origins)
ApplyCORS ==
    /\ call.function = "CORS"
    /\ result = NoResult
    /\ result' = Returned(CORSNew(call.api_interface, call.self))
    /\ UNCHANGED <<call, dispatch_vars, api_vars>>

\* self.option_headers(request, methods)
OptionHeaders ==
    /\ call.function = "CORS.option_headers"
    /\ result = NoResult
    /\ result' = Returned(option_headers(call.self, call.request, call.methods))
    /\ UNCHANGED <<call, dispatch_vars, api_vars>>

\* self.post_request(request, response)
CorsPostRequest ==
    /\ call.function = "CORS.post_request"
    /\ result = NoResult
    /\ result' = Returned(cors_post_request(call.self, call.request, call.response))
    /\ UNCHANGED <<call, dispatch_vars, api_vars>>

\* sign_url_path(url, secret_key, expire_in)
SignUrl ==
    /\ call.function = "sign_url_path"
    /\ result = NoResult
    /\ result' = Returned(sign_url_path(call.url, call.secret_key, call.expire_in,
                                        call.now, call.salt))
    /\ UNCHANGED <<call, dispatch_vars, api_vars>>

\* The urls that reach the verifier: the signed url, as it is or changed.
Received(signed) ==
    {signed} \cup {[signed EXCEPT !.query = query] : query \in Tampered(signed.query)}

\* verify_url(url, secret_key) of a url that was signed, at a later time
VerifyUrl ==
    /\ call.function = "sign_url_path"
    /\ result.kind = "returned"
    /\ \E url \in Received(result.value), secret_key \in SecretKeys,
          clock \in call.now..(call.now + MaxDelay) :
          /\ call' = [function |-> "verify_url", url |-> url, secret_key |-> secret_key,
                      clock |-> clock, signed |-> result.value, signing |-> call]
          /\ result' = verify_url(url, secret_key, "_", None, clock)
    /\ UNCHANGED <<dispatch_vars, api_vars>>

\* FixedSignedAuth(secret_key).pre_dispatch(request, path_args) for the
\* request of a url that was signed; "" is the secret key None.
SignedPreDispatch ==
    /\ call.function = "sign_url_path"
    /\ result.kind = "returned"
    /\ \E url \in Received(result.value), secret_key \in SecretKeys \cup {""},
          clock \in call.now..(call.now + MaxDelay) :
          /\ call' = [function |-> "SignedAuthBase.pre_dispatch",
                      request |-> [path |-> url.path, GET |-> parse_qs(url.query)],
                      secret_key |-> secret_key, clock |-> clock,
                      signed |-> result.value, signing |-> call]
          /\ result' = signed_pre_dispatch(call'.request, secret_key, clock)
    /\ UNCHANGED <<dispatch_vars, api_vars>>

CallNext ==
    \/ CompareOperations
    \/ FormatPath
    \/ ParsePath
    \/ AddPaths
    \/ ResolveTypes
    \/ ExecuteListing
    \/ ApplyCORS
    \/ OptionHeaders
    \/ CorsPostRequest
    \/ SignUrl
    \/ VerifyUrl
    \/ SignedPreDispatch

CallSpec == CallInit /\ [][CallNext]_vars

(* ---------------------------------------------------------------- claims *)

\* The two MiddlewareLists of a dispatch.
MiddlewareListsInUse == {middleware, operation.middleware}

\* The ids of the calls-entries of one hook of one owner, in call order.
CallIds(hook, owner) ==
    LET picked == SelectSeq(calls, LAMBDA c : c.hook = hook /\ c.owner = owner)
    IN  [k \in 1..Len(picked) |-> picked[k].id]

HasCall(hook, owner) == \E k \in 1..Len(calls) : calls[k].hook = hook /\ calls[k].owner = owner

Reverse(s) == [k \in 1..Len(s) |-> s[Len(s) + 1 - k]]

C1Key(o) == IF o.has_priority THEN o.priority ELSE 10

C1Ascending(list, seq) ==
    \A a, b \in 1..Len(seq) : a < b => C1Key(list[seq[a]]) <= C1Key(list[seq[b]])

C1Descending(list, seq) ==
    \A a, b \in 1..Len(seq) : a < b => C1Key(list[seq[a]]) >= C1Key(list[seq[b]])

\* seq holds exactly the objects of list that define hook, each once.
C1Defines(list, seq, hook) ==
    /\ Range(seq) = {j \in 1..Len(list) : hook \in list[j].hooks}
    /\ Cardinality(Range(seq)) = Len(seq)

\* The hook sequences of a list are ordered and complete.
C1Holds(list) ==
    \A pre_request_seq \in {pre_request(list)}, pre_dispatch_seq \in {pre_dispatch(list)},
       post_dispatch_seq \in {post_dispatch(list)}, post_request_seq \in {post_request(list)} :
        /\ C1Ascending(list, pre_request_seq)
        /\ C1Ascending(list, pre_dispatch_seq)
        /\ C1Descending(list, post_dispatch_seq)
        /\ C1Descending(list, post_request_seq)
        /\ C1Defines(list, pre_request_seq, "pre_request")
        /\ C1Defines(list, pre_dispatch_seq, "pre_dispatch")
        /\ C1Defines(list, post_dispatch_seq, "post_dispatch")
        /\ C1Defines(list, post_request_seq, "post_request")

\* C1: for any MiddlewareList, pre_request and pre_dispatch are in ascending
\* priority order (no priority attribute counts as 10), post_dispatch and
\* post_request are in descending priority order, and each sequence holds
\* exactly the middleware that define the hook.  Stated of the lists of
\* every interface and operation (they are fixed from construction on, so
\* the states between two dispatches show them all), and of the hooks a
\* dispatch that ran every loop to its end has invoked.
C1_HookSequencesOrdered ==
    /\ pc = "idle" => \A list \in MiddlewareListsInUse : C1Holds(list)
    /\ (pc = "done" /\ exc = NoException /\ HasCall("callback", "operation")) =>
        \A pre_request_ids \in {CallIds("pre_request", "interface")},
           pre_dispatch_ids \in {CallIds("pre_dispatch", "interface")},
           post_dispatch_ids \in {CallIds("post_dispatch", "interface")},
           post_request_ids \in {CallIds("post_request", "interface")},
           op_pre_dispatch_ids \in {CallIds("pre_dispatch", "operation")},
           op_post_dispatch_ids \in {CallIds("post_dispatch", "operation")} :
            /\ C1Ascending(middleware, pre_request_ids)
            /\ C1Ascending(middleware, pre_dispatch_ids)
            /\ C1Descending(middleware, post_dispatch_ids)
            /\ C1Descending(middleware, post_request_ids)
            /\ C1Ascending(operation.middleware, op_pre_dispatch_ids)
            /\ C1Descending(operation.middleware, op_post_dispatch_ids)
            /\ C1Defines(middleware, pre_request_ids, "pre_request")
            /\ C1Defines(middleware, pre_dispatch_ids, "pre_dispatch")
            /\ C1Defines(middleware, post_dispatch_ids, "post_dispatch")
            /\ C1Defines(middleware, post_request_ids, "post_request")
            /\ C1Defines(operation.middleware, op_pre_dispatch_ids, "pre_dispatch")
            /\ C1Defines(operation.middleware, op_post_dispatch_ids, "post_dispatch")

\* A dispatch has run all four hook loops of an interface list in which an
\* object without priority is registered before one of priority 5, both
\* defining the dispatch hooks, and neither defining handle_500.
C1_Witness ==
    /\ pc = "done"
    /\ exc = NoException
    /\ \E a, b \in 1..Len(middleware) :
        /\ a < b
        /\ ~middleware[a].has_priority
        /\ middleware[b].has_priority /\ middleware[b].priority < 10
        /\ {"pre_dispatch", "post_dispatch"} \subseteq
                middleware[a].hooks \cap middleware[b].hooks
        /\ "handle_500" \notin middleware[a].hooks
        /\ CallIds("pre_dispatch", "interface") = <<b, a>>
        /\ CallIds("post_dispatch", "interface") = <<a, b>>

\* C2 (as claimed): among middleware of equal priority the pre_dispatch hooks
\* run in registration order, and the post_dispatch invocation order is the
\* exact reverse of the pre_dispatch invocation order for the middleware
\* that define both hooks.  Stated for a dispatch_operation in which every
\* interface pre_dispatch and post_dispatch hook has been invoked.
C2_PostDispatchIsReverseOfPreDispatch ==
    (pc = "encode" /\ exc = NoException) =>
        LET both == {j \in 1..Len(middleware) :
                        {"pre_dispatch", "post_dispatch"} \subseteq middleware[j].hooks}
            pre == SelectSeq(CallIds("pre_dispatch", "interface"), LAMBDA j : j \in both)
            post == SelectSeq(CallIds("post_dispatch", "interface"), LAMBDA j : j \in both)
        IN  /\ \A a, b \in 1..Len(pre) :
                (a < b /\ C1Key(middleware[pre[a]]) = C1Key(middleware[pre[b]]))
                    => pre[a] < pre[b]
            /\ post = Reverse(pre)

\* The hook and callback invocations of calls, without the stage marks.
HookCalls == SelectSeq(calls, LAMBDA c : c.owner # "stage")

CallsOf(hook, owner, seq) == [k \in 1..Len(seq) |-> Call(hook, owner, seq[k])]

\* Neither a pre_dispatch hook nor the callback has been invoked.
NoOperationCall ==
    /\ ~HasCall("pre_dispatch", "interface")
    /\ ~HasCall("pre_dispatch", "operation")
    /\ ~HasCall("callback", "operation")

\* The callback was invoked and returned a value.
CallbackReturned ==
    \E k \in 1..Len(calls) :
        /\ calls[k].hook = "callback"
        /\ IF k = Len(calls) THEN pc # "operation_except"
                             ELSE calls[k + 1].hook # "exception_mapping"

C3Expected ==
    CallsOf("pre_request", "interface", pre_request(middleware))
    \o CallsOf("pre_dispatch", "interface", pre_dispatch(middleware))
    \o CallsOf("pre_dispatch", "operation", pre_dispatch(operation.middleware))
    \o <<Call("callback", "operation", 0)>>
    \o CallsOf("post_dispatch", "operation", post_dispatch(operation.middleware))
    \o CallsOf("post_dispatch", "interface", post_dispatch(middleware))
    \o CallsOf("post_request", "interface", post_request(middleware))

StageCalls == SelectSeq(calls, LAMBDA c : c.hook \notin {"handle_500", "handle_500_fallback"})

C4RankClaimed(hook) ==
    CASE hook = "negotiate" -> 1
      [] hook = "method_check" -> 2
      [] hook = "pre_request" -> 3
      [] hook = "pre_dispatch" -> 4
      [] hook = "callback" -> 5
      [] hook = "post_dispatch" -> 6
      [] hook = "exception_mapping" -> 7
      [] hook = "post_request" -> 8
      [] hook = "encode" -> 9

C4RankAmended(hook) ==
    CASE hook = "pre_request" -> 1
      [] hook = "negotiate" -> 2
      [] hook = "method_check" -> 3
      [] hook = "pre_dispatch" -> 4
      [] hook = "callback" -> 5
      [] hook = "post_dispatch" -> 6
      [] hook = "exception_mapping" -> 7
      [] hook = "encode" -> 8
      [] hook = "post_request" -> 9

\* C4 (as claimed): the stages of a dispatch occur in the order negotiation,
\* method check, pre_request, pre_dispatch, callback, post_dispatch,
\* exception mapping, post_request, encoding.
C4_AsClaimed ==
    LET stages == StageCalls
    IN  \A a, b \in 1..Len(stages) :
            a < b => C4RankClaimed(stages[a].hook) <= C4RankClaimed(stages[b].hook)

\* C4 (amended): the stages occur in the order pre_request, negotiation,
\* method check, pre_dispatch, callback, post_dispatch, exception mapping,
\* encoding, post_request; every pre_request hook has run when negotiation
\* starts, negotiation and the method check precede every pre_dispatch hook
\* and the callback, and the response exists before any post_request hook
\* runs.
C4_StageOrder ==
    /\ \A stages \in {StageCalls} :
        \A a \in 1..(Len(stages) - 1) :
            C4RankAmended(stages[a].hook) <= C4RankAmended(stages[a + 1].hook)
    /\ HasCall("negotiate", "stage") =>
        CallIds("pre_request", "interface") = pre_request(middleware)
    /\ ~NoOperationCall =>
        HasCall("negotiate", "stage") /\ HasCall("method_check", "stage")
    /\ HasCall("post_request", "interface") => response # NoResponse
    /\ (pc = "done" /\ exc = NoException) => HasCall("negotiate", "stage")

\* A dispatch went through all nine stages: a pre_dispatch hook ran, a
\* post_dispatch hook raised after the callback, the exception was mapped,
\* the result encoded and a post_request hook ran.
C4_Witness ==
    /\ pc = "done"
    /\ outcome = "returned"
    /\ \A h \in {"pre_request", "negotiate", "method_check", "pre_dispatch", "callback",
                 "post_dispatch", "exception_mapping", "encode", "post_request"} :
        \E k \in 1..Len(calls) : calls[k].hook = h

\* The request and response content types read off the request's headers:
\* the first header that is present, Content-Type first for the request
\* type and Accept first for the response type, else the default, then the
\* alias remapped.
C5RequestType ==
    remap_codecs(IF request.content_type # <<>> THEN request.content_type[1]
                 ELSE IF request.accepts # <<>> THEN request.accepts[1]
                 ELSE JSON)

C5ResponseType ==
    remap_codecs(IF request.accepts # <<>> THEN request.accepts[1]
                 ELSE IF request.content_type # <<>> THEN request.content_type[1]
                 ELSE JSON)

C5NoRequestCodec == pc # "idle" /\ C5RequestType \notin registered_codecs

C5NoResponseCodec ==
    pc # "idle" /\ C5RequestType \in registered_codecs /\ C5ResponseType \notin registered_codecs

\* C5 (as claimed): a request type without a codec makes dispatch return
\* 422, else a response type without a codec makes it return 406, and
\* neither the pre_dispatch hooks nor the callback are invoked.
C5_AsClaimed ==
    /\ (C5NoRequestCodec \/ C5NoResponseCodec) => NoOperationCall
    /\ (pc = "done" /\ C5NoRequestCodec) =>
        outcome = "returned" /\ response.status = UNPROCESSABLE_ENTITY
    /\ (pc = "done" /\ C5NoResponseCodec) =>
        outcome = "returned" /\ response.status = NOT_ACCEPTABLE

\* C5 (amended): a request type without a codec makes negotiation answer
\* 422, else a response type without a codec makes it answer 406; neither
\* the pre_dispatch hooks nor the callback are invoked; and that answer is
\* what dispatch returns unless a pre_request or post_request hook raises.
C5_NegotiationFailure ==
    (C5NoRequestCodec \/ C5NoResponseCodec) =>
        /\ NoOperationCall
        /\ ~HasCall("method_check", "stage")
        /\ (HasCall("negotiate", "stage") /\ exc = NoException) =>
            response.status = (IF C5NoRequestCodec THEN UNPROCESSABLE_ENTITY
                               ELSE NOT_ACCEPTABLE)
        /\ (pc = "done" /\ exc = NoException) =>
            outcome = "returned" /\ HasCall("negotiate", "stage")

\* dispatch returned 406 for a request whose body type is served.
C5_Witness ==
    /\ pc = "done"
    /\ C5NoResponseCodec
    /\ outcome = "returned"
    /\ response.status = NOT_ACCEPTABLE
    /\ HasCall("post_request", "interface")

C6MethodNotAllowed ==
    /\ pc # "idle"
    /\ C5RequestType \in registered_codecs
    /\ C5ResponseType \in registered_codecs
    /\ request.method \notin Range(operation.methods)

\* C6 (as claimed): with both codecs resolved and a method the operation
\* does not list, dispatch returns 405 with an Allow header of exactly the
\* operation's methods, and neither the pre_dispatch hooks nor the callback
\* are invoked.
C6_AsClaimed ==
    /\ C6MethodNotAllowed => NoOperationCall
    /\ (pc = "done" /\ C6MethodNotAllowed) =>
        /\ outcome = "returned"
        /\ response.status = METHOD_NOT_ALLOWED
        /\ "Allow" \in DOMAIN response.headers
        /\ response.headers["Allow"] = operation.methods

\* C6 (amended): with both codecs resolved and a method the operation does
\* not list, the method check answers 405 with an Allow header of exactly
\* the operation's methods; neither the pre_dispatch hooks nor the callback
\* are invoked; and that answer is what dispatch returns unless a
\* pre_request or post_request hook raises.
C6_MethodNotAllowed ==
    C6MethodNotAllowed =>
        /\ NoOperationCall
        /\ (HasCall("method_check", "stage") /\ exc = NoException) =>
            /\ response.status = METHOD_NOT_ALLOWED
            /\ "Allow" \in DOMAIN response.headers
            /\ response.headers["Allow"] = operation.methods
        /\ (pc = "done" /\ exc = NoException) =>
            outcome = "returned" /\ HasCall("method_check", "stage")

\* dispatch returned 405 for a GET on an operation of two other methods.
C6_Witness ==
    /\ pc = "done"
    /\ C6MethodNotAllowed
    /\ outcome = "returned"
    /\ response.status = METHOD_NOT_ALLOWED
    /\ Len(operation.methods) = 2
    /\ HasCall("post_request", "interface")

\* dispatch_operation has caught an exception and returned its
\* (resource, status, headers) for it.
OperationCaught == pc = "encode" /\ HasCall("exception_mapping", "stage")

C7Status(e) ==
    CASE e.kind = "ImmediateHttpResponse" -> e.status
      [] e.kind = "ValidationError" -> BAD_REQUEST
      [] e.kind = "NotImplementedError" -> NOT_IMPLEMENTED
      [] OTHER -> INTERNAL_SERVER_ERROR

C7Handled == {"ImmediateHttpResponse", "ValidationError", "NotImplementedError"}

\* C7 (as claimed): with debug disabled, an exception of the callback or of
\* a pre_dispatch/post_dispatch hook fixes the status by the first matching
\* rule: the signal's status; 400 for a validation error; 501 for
\* NotImplementedError; 500 with the generic error body for anything else.
C7_AsClaimed ==
    (~debug_enabled /\ OperationCaught) =>
        /\ status = C7Status(exc)
        /\ exc.kind \notin C7Handled => resource = GenericError

\* C7 (amended): the first three rules as claimed; any other exception gives
\* what handle_500 gives: the resource, and its status, of the first
\* handle_500 hook that returns one, and 500 with the generic error body
\* when there is no such hook or a handle_500 hook raises.
C7_ExceptionMapping ==
    (~debug_enabled /\ OperationCaught) =>
        /\ exc.kind \in C7Handled => status = C7Status(exc)
        /\ exc.kind = "ImmediateHttpResponse" =>
            resource = exc.resource /\ headers = exc.headers
        /\ exc.kind \notin C7Handled =>
            /\ status = resource.status
            /\ \/ resource = GenericError /\ status = INTERNAL_SERVER_ERROR
               \/ /\ resource \in Handle500Results \ {NoneResource}
                  /\ HasCall("handle_500", "interface")
                  /\ exception = exc
            /\ exception # exc => resource = GenericError
            /\ handle_500(middleware) = <<>> => resource = GenericError

\* A post_dispatch hook raised a ValueError after the callback returned, and
\* a handle_500 hook supplied the resource dispatch_operation returns.
C7_Witness ==
    /\ ~debug_enabled
    /\ OperationCaught
    /\ exc.kind = "ValueError"
    /\ CallbackReturned
    /\ resource = ErrorFromStatus(SEE_OTHER, "Quick over there...")
    /\ status = SEE_OTHER

\* C8: with debug disabled dispatch never raises: whatever a hook, the
\* callback, a handle_500 hook or the encoding raises, dispatch ends by
\* returning a response, and an encoding failure gives status 500 after
\* handle_500 has been entered.
C8_NeverRaises ==
    ~debug_enabled =>
        /\ outcome # "raised"
        /\ pc = "done" =>
            /\ outcome = "returned"
            /\ response # NoResponse
            /\ (exc # NoException /\ ~HasCall("exception_mapping", "stage")) =>
                response.status = INTERNAL_SERVER_ERROR
            /\ exception \notin {NoException, exc} =>
                response.status = INTERNAL_SERVER_ERROR
        /\ exc = TypeError =>
            /\ pc \in {"dispatch_except", "handle_500", "done"}
            /\ pc # "dispatch_except" =>
                \E a, b \in 1..Len(calls) :
                    /\ a < b
                    /\ calls[a] = Call("encode", "stage", 0)
                    /\ calls[b] = Call("handle_500", "stage", 0)
            /\ pc = "done" => response.status = INTERNAL_SERVER_ERROR

\* An encoding failure was answered with 500 after a handle_500 hook ran.
C8_Witness ==
    /\ ~debug_enabled
    /\ pc = "done"
    /\ exc = TypeError
    /\ outcome = "returned"
    /\ response.status = INTERNAL_SERVER_ERROR
    /\ HasCall("handle_500", "interface")

C9Unhandled == {"ValueError", "TypeError"}

\* C9: with debug enabled, an exception that is no immediate-response
\* signal, validation error or NotImplementedError leaves dispatch as the
\* exception it is: handle_500 is not entered and no response with status
\* 500 is produced.
C9_DebugPropagates ==
    (debug_enabled /\ exc.kind \in C9Unhandled) =>
        /\ pc \in {"operation_except", "dispatch_except", "done"}
        /\ pc = "done" => outcome = "raised"
        /\ outcome # "returned"
        /\ ~HasCall("handle_500", "stage")
        /\ ~HasCall("handle_500", "interface")
        /\ exception = NoException
        /\ response.status # INTERNAL_SERVER_ERROR

\* The encoding failed with debug enabled and dispatch raised it.
C9_Witness ==
    /\ debug_enabled
    /\ pc = "done"
    /\ exc = TypeError
    /\ outcome = "raised"

\* C10 (as claimed): an immediate-response signal raised from a
\* pre_request, pre_dispatch, post_dispatch or post_request hook or from the
\* callback ends the processing, and dispatch returns a response with the
\* signal's status, body and headers.
C10_ImmediateResponseFromAnyHook ==
    (pc = "done" /\ exc.kind = "ImmediateHttpResponse" /\ ~DumpsRaises(exc.resource)) =>
        /\ outcome = "returned"
        /\ response.status = exc.status
        /\ response.body = NoBody
        /\ \A h \in DOMAIN exc.headers :
            h \in DOMAIN response.headers /\ response.headers[h] = exc.headers[h]

\* The calls made since handle_500 was last entered.
Handle500Calls ==
    LET entered == {k \in 1..Len(calls) : calls[k] = Call("handle_500", "stage", 0)}
        last == CHOOSE k \in entered : \A j \in entered : j <= k
    IN  IF entered = {} THEN <<>> ELSE SubSeq(calls, last + 1, Len(calls))

\* The handle_500 hooks that invocation has called, in call order.
Handle500Ids ==
    LET picked == SelectSeq(Handle500Calls, LAMBDA c : c = Call("handle_500", "interface", c.id))
    IN  [k \in 1..Len(picked) |-> picked[k].id]

\* That invocation went on to the generic error.
Handle500FellBack ==
    \E k \in 1..Len(Handle500Calls) : Handle500Calls[k].hook = "handle_500_fallback"

IsPrefix(s, t) == Len(s) <= Len(t) /\ s = SubSeq(t, 1, Len(s))

\* handle_500 has returned to dispatch_operation / to dispatch.
Handle500ReturnedToOperation ==
    pc = "encode" /\ ret = "dispatch_operation" /\ HasCall("handle_500", "stage")

Handle500ReturnedToDispatch == pc = "done" /\ ret = "dispatch"

ErrorProcessingResponse ==
    HttpResponse(TextBody("Error processing response."), INTERNAL_SERVER_ERROR, <<>>)

\* C11 (as claimed): for an unhandled exception with debug disabled the
\* handle_500 hooks are offered the exception one after another; the first
\* hook that returns a value supplies the response and later hooks are not
\* called; with no such hook, or a hook that raises, the result is the
\* generic 500 error.
C11_AsClaimed ==
    /\ (Handle500ReturnedToOperation \/ Handle500ReturnedToDispatch) =>
        IsPrefix(Handle500Ids, handle_500(middleware))
    /\ (Handle500ReturnedToOperation /\ ~Handle500FellBack) =>
        resource \in Handle500Results \ {NoneResource}
    /\ (Handle500ReturnedToOperation /\ Handle500FellBack) => resource = GenericError
    /\ (Handle500ReturnedToDispatch /\ ~Handle500FellBack) =>
        response.status \in {r.status : r \in Handle500Results \ {NoneResource}}
    /\ (Handle500ReturnedToDispatch /\ Handle500FellBack) =>
        response.status = INTERNAL_SERVER_ERROR

\* C11 (amended): the hooks are offered the exception in handle_500 order
\* and the first hook that returns a true value ends the loop; its value is
\* handle_500's result, and so the response, when the exception was caught
\* by dispatch_operation; with no such hook, or a hook that raises, the
\* result is the generic 500 error; when the exception was caught by
\* dispatch itself the response is the fixed 500 text whatever the hooks
\* returned.
C11_Handle500 ==
    /\ pc = "handle_500" =>
        /\ ~debug_enabled
        /\ Handle500Ids = SubSeq(handle_500(middleware), 1, i - 1)
        /\ ~Handle500FellBack
    /\ (Handle500ReturnedToOperation \/ Handle500ReturnedToDispatch) =>
        /\ IsPrefix(Handle500Ids, handle_500(middleware))
        /\ ~Handle500FellBack => Len(Handle500Ids) >= 1
        /\ (Handle500FellBack /\ Handle500Ids # handle_500(middleware)) =>
            Len(Handle500Ids) >= 1 /\ exception \in RaisableOutside
    /\ Handle500ReturnedToOperation =>
        /\ ~Handle500FellBack =>
            /\ resource \in Handle500Results
            /\ Truthy(resource)
            /\ status = resource.status
        /\ Handle500FellBack =>
            resource = GenericError /\ status = INTERNAL_SERVER_ERROR
        /\ exception # exc => Handle500FellBack
    /\ Handle500ReturnedToDispatch => response = ErrorProcessingResponse

\* The first of two handle_500 hooks supplied the resource and the second
\* was not called.
C11_Witness ==
    /\ Handle500ReturnedToOperation
    /\ ~Handle500FellBack
    /\ Len(handle_500(middleware)) = 2
    /\ Len(Handle500Ids) = 1
    /\ resource = ErrorFromStatus(SEE_OTHER, "Quick over there...")

\* create_response has just returned: resource, status and headers are
\* the arguments it was called with.
ResponseCreated ==
    /\ pc \in {"post_request", "return"}
    /\ calls # <<>>
    /\ calls[Len(calls)] = Call("encode", "stage", 0)

\* C12: create_response gives a response without body, with status 204 or
\* the status given, exactly when the body is None; every other body, an
\* empty list included, is encoded with the negotiated response codec and
\* sent with status 200 or the status given and the codec's Content-Type.
C12_CreateResponse ==
    ResponseCreated =>
        /\ (response.body = NoBody) <=> (resource.kind = "None")
        /\ resource.kind = "None" =>
            /\ response.status = (IF status # 0 THEN status ELSE NO_CONTENT)
            /\ response.headers = headers
        /\ resource.kind # "None" =>
            /\ response.body = [kind |-> "encoded", text |-> request.response_codec,
                                data |-> resource]
            /\ request.response_codec \in registered_codecs
            /\ response.status = (IF status # 0 THEN status ELSE OK)
            /\ "Content-Type" \in DOMAIN response.headers
            /\ response.headers["Content-Type"] = <<request.response_codec>>

\* The callback returned an empty list and the response is a 200 with the
\* encoded list.
C12_Witness ==
    /\ ResponseCreated
    /\ resource.kind = "EmptyList"
    /\ response.status = OK
    /\ response.body.kind = "encoded"

\* Operation.__call__ has returned the value now in resource (interface
\* post_dispatch hooks may have gone on with it).
OperationReturned ==
    /\ CallbackReturned
    /\ exc = NoException
    /\ pc \in {"post_dispatch", "encode", "post_request", "return", "done"}

\* The pre_dispatch hooks called before the callback, as (owner, id) pairs.
C13KeysAdded ==
    {<<calls[k].owner, calls[k].id>> : k \in {j \in 1..Len(calls) : calls[j].hook = "pre_dispatch"}}

\* The operation-level hooks a value went through, in order.
C13OperationVia ==
    LET picked == SelectSeq(resource.via, LAMBDA v : v[1] = "operation")
    IN  [k \in 1..Len(picked) |-> picked[k][2]]

\* C13: Operation.__call__ executes the callback with the path_args as all
\* pre_dispatch hooks have changed them in place, and returns the
\* callback's result passed through every post_dispatch hook in reverse
\* (descending) priority order, each hook given the output of the one
\* before.
C13_OperationCall ==
    /\ (CallbackReturned /\ exc = NoException) =>
        /\ resource.args = C13KeysAdded
        /\ \A j \in 1..Len(operation.middleware) :
            "pre_dispatch" \in operation.middleware[j].hooks =>
                <<"operation", j>> \in resource.args
    /\ OperationReturned =>
        \A went \in {C13OperationVia} :
            /\ C1Descending(operation.middleware, went)
            /\ C1Defines(operation.middleware, went, "post_dispatch")
            /\ went = CallIds("post_dispatch", "operation")

\* The callback got the keys of three pre_dispatch hooks and its result
\* went through two operation-level post_dispatch hooks of different
\* priority.
C13_Witness ==
    /\ OperationReturned
    /\ Cardinality(resource.args) = 3
    /\ Len(C13OperationVia) = 2
    /\ resource.kind = "data"

\* The _operations tables of the bases of class c, one after the other.
Inherited(c) == ParentOperations(classes[c].parents)

\* How often operation op occurs in the sequence ops.
Occurrences(op, ops) == Cardinality({k \in 1..Len(ops) : ops[k] = op})

OperationsCompared ==
    /\ call.function = "Operation.__eq__"
    /\ call.other.class = "Operation"
    /\ result.kind = "returned"

\* C15: two Operations compare equal exactly when their effective URL paths
\* (Operation.path) are equal and their methods tuples are equal; the
\* callbacks play no part.
C15_OperationEquality ==
    OperationsCompared =>
        (result.value <=> /\ path(call.self) = path(call.other)
                          /\ call.self.methods = call.other.methods)

\* Two Operations with different callbacks, one declared with the key field
\* placeholder and one with the written-out parameter, compare equal.
C15_Witness ==
    /\ OperationsCompared
    /\ result.value
    /\ call.self.callback # call.other.callback
    /\ call.self.url_path # call.other.url_path

\* C16: for every UrlPath p built from str and PathParam nodes,
\* UrlPath.parse(p.format()) returns a UrlPath equal to p.
C16_RoundTrip ==
    call.function = "UrlPath.parse" =>
        /\ result.kind = "returned"
        /\ result.value = call.self

\* left + right has been evaluated for two UrlPaths.
PathsAdded ==
    /\ call.function = "+"
    /\ call.left.class = "UrlPath"
    /\ call.right.class = "UrlPath"
    /\ result # NoResult

\* The first node of the UrlPath operand is the empty-string marker.
Absolute(operand) == operand.nodes # <<>> /\ operand.nodes[1] = Str(<<>>)

\* C17 as stated: for an absolute UrlPath b and any UrlPath a, a + b raises
\* and b + a does not raise.
C17_AsClaimed ==
    PathsAdded =>
        /\ Absolute(call.right) => result.kind = "raised"
        /\ Absolute(call.left) => result.kind = "returned"

\* C17: for an absolute UrlPath b and any UrlPath a, a + b raises ValueError;
\* b + a returns the nodes of b followed by those of a when a is not
\* absolute (when a is absolute as well, b + a raises like any a + b).
C17_AbsoluteOnTheRight ==
    PathsAdded =>
        /\ Absolute(call.right) => result = Raised("ValueError")
        /\ (Absolute(call.left) /\ ~Absolute(call.right)) =>
              result = Returned(call.left.nodes \o call.right.nodes)

\* A relative path plus an absolute one has raised.
C17_Witness ==
    /\ PathsAdded
    /\ call.left.nodes # <<>>
    /\ ~Absolute(call.left)
    /\ Absolute(call.right)
    /\ result.kind = "raised"

\* The types of a request have been resolved.
TypesResolved ==
    /\ call.function = "resolve_content_type"
    /\ result.kind = "returned"

\* The content type of the first of the values that is present, else the
\* default.
C18FirstPresent(values) ==
    IF values[1] # <<>> THEN values[1][1]
    ELSE IF values[2] # <<>> THEN values[2][1]
    ELSE JSON

\* The content type of the first of the values that has one, else the
\* default.
C18FirstType(values) ==
    IF values[1] # <<>> /\ values[1][1] # "" THEN values[1][1]
    ELSE IF values[2] # <<>> /\ values[2][1] # "" THEN values[2][1]
    ELSE JSON

\* The alias of a content type.
C18Alias(content_type) == IF content_type = "text/plain" THEN "application/json" ELSE content_type

\* The codec registered for a content type.
C18Codec(content_type) ==
    IF content_type = "application/json" THEN "application/json" ELSE "KeyError"

\* C18 as stated: each chain yields the content type of the first header
\* that is present (Content-Type, Accept for the request; Accept,
\* Content-Type for the response), else the default; the alias is applied
\* before the codec lookup.
C18_AsClaimed ==
    TypesResolved =>
        LET req == call.request
            request_type == C18FirstPresent(<<req.content_type, req.accepts>>)
            response_type == C18FirstPresent(<<req.accepts, req.content_type>>)
        IN  /\ result.value.request_type = request_type
            /\ result.value.response_type = response_type
            /\ result.value.request_codec = C18Codec(C18Alias(request_type))
            /\ result.value.response_codec = C18Codec(C18Alias(response_type))

\* C18: each chain yields the first non-empty content type (the part of the
\* value before ';') among its headers, in its own order, else the default;
\* a header that is present without a content type is passed over; the
\* alias is applied before the codec lookup.
C18_ResolveContentType ==
    TypesResolved =>
        LET req == call.request
            request_type == C18FirstType(<<req.content_type, req.accepts>>)
            response_type == C18FirstType(<<req.accepts, req.content_type>>)
        IN  /\ result.value.request_type = request_type
            /\ result.value.response_type = response_type
            /\ result.value.request_codec = C18Codec(C18Alias(request_type))
            /\ result.value.response_codec = C18Codec(C18Alias(response_type))

\* Both headers present with different types: the chains resolve to
\* different types, and the aliased one finds its codec.
C18_Witness ==
    /\ TypesResolved
    /\ call.request.content_type = <<TEXT, "charset=utf8">>
    /\ call.request.accepts = <<XML>>
    /\ result.value.request_type = TEXT
    /\ result.value.request_codec = JSON
    /\ result.value.response_type = XML
    /\ result.value.response_codec = "KeyError"

\* A listing operation has executed a query and called the callback.
ListingCalled ==
    /\ call.function = "execute"
    /\ call.path_args.called

\* The offset and the limit of the query, the defaults for a missing one.
C19Offset ==
    IF call.query.offset.present THEN int(call.query.offset.text).value
    ELSE call.self.default_offset

C19Limit ==
    IF call.query.limit.present THEN int(call.query.limit.text).value
    ELSE call.self.default_limit

\* The callback received offset' = max(0, offset) and a limit' of at least 1
\* and at most max_limit, equal to limit when limit is in that range.
C19Clamped(max_is_set) ==
    /\ call.path_args.offset = (IF C19Offset > 0 THEN C19Offset ELSE 0)
    /\ call.path_args.limit >= 1
    /\ max_is_set => call.path_args.limit <= call.self.max_limit.value
    /\ (C19Limit >= 1 /\ (max_is_set => C19Limit <= call.self.max_limit.value)) =>
          call.path_args.limit = C19Limit

\* C19 as stated: for every integer offset and limit and every configured
\* max_limit the callback receives the clamped values.
C19_AsClaimed ==
    ListingCalled => C19Clamped(~call.self.max_limit.none)

\* C19: for every integer offset and limit, and every max_limit that is
\* None or at least 1, the callback is called and receives the clamped
\* values; missing values are the defaults, clamped alike.
C19_Clamping ==
    /\ (ListingCalled /\ (call.self.max_limit.none \/ call.self.max_limit.value >= 1)) =>
          C19Clamped(~call.self.max_limit.none)
    /\ (call.function = "execute" /\ result # NoResult) =>
          (call.path_args.called <=>
              /\ call.query.offset.text # <<"x">>
              /\ call.query.limit.text # <<"x">>)

\* offset -1 and limit 102 under max_limit 100: the callback received 0 and
\* 100.
C19_Witness ==
    /\ ListingCalled
    /\ call.self.max_limit = Some(100)
    /\ call.query.offset = Text(<<"-", "1">>)
    /\ call.query.limit = Text(<<"1", "0", "2">>)
    /\ call.path_args = PathArgs(0, 100)

\* A wrapped listing whose callback returned something other than None.
WrappedListingReturned ==
    /\ ListingCalled
    /\ call.self.class = "WrappedListOperation"
    /\ call.returns.class # "NoneType"
    /\ result.kind = "returned"

\* The callback returned a 2-tuple.
C20Pair == call.returns.class = "tuple" /\ call.returns.len = 2

\* The items the callback returned.
C20Items == IF C20Pair THEN List(call.returns.items) ELSE call.returns

\* bare is given as true in the query.
C20Bare == call.query.bare \in {Text(<<"true">>), Text(<<"1">>)}

\* C20: with bare true the wrapped listing returns the items themselves;
\* without bare, or with a false bare, it returns a Listing of the items
\* with the offset and the limit the callback received and the total_count
\* of a 2-tuple, None otherwise.
C20_ListingEnvelope ==
    WrappedListingReturned =>
        IF C20Bare THEN result.value = C20Items
        ELSE /\ result.value.class = "Listing"
             /\ result.value.results = C20Items
             /\ result.value.offset = call.path_args.offset
             /\ result.value.limit = call.path_args.limit
             /\ result.value.total_count =
                   (IF C20Pair THEN call.returns.second ELSE None)

\* The callback returned (items, 5) for limit 0 and a false bare: a Listing
\* with limit 1 and total_count 5.
C20_Witness ==
    /\ WrappedListingReturned
    /\ call.query.bare = Text(<<"F">>)
    /\ call.query.limit = Text(<<"0">>)
    /\ call.returns = Tuple(2, <<1, 2, 3>>, Some(5))
    /\ result.value.class = "Listing"
    /\ result.value.limit = 1
    /\ result.value.total_count = Some(5)

(* C21  CORS applied to an interface *)

CorsApplied == call.function = "CORS" /\ result.kind = "returned"

\* The operations CORS registered on the path p of the interface.
Synthetic(api_interface, p) ==
    {n \in DOMAIN api_interface.containers :
        /\ "cors_methods" \in DOMAIN api_interface.containers[n]
        /\ op_paths(api_interface)[n].path = p}

\* C21: after CORS(api_interface, origins) every path of the collated
\* operation table has an OPTIONS operation: a path that had none has got
\* exactly one synthetic OPTIONS operation, whose allowed methods are the
\* methods of the operations on that path, and a path that had one has got
\* none.
C21_OptionsOnEveryPath ==
    CorsApplied =>
        LET before == op_paths_collated(call.api_interface)
            after == op_paths_collated(result.value)
        IN  \A p \in DOMAIN before :
               /\ p \in DOMAIN after
               /\ "OPTIONS" \in after[p]
               /\ "OPTIONS" \in before[p] => Synthetic(result.value, p) = {}
               /\ "OPTIONS" \notin before[p] =>
                      /\ Cardinality(Synthetic(result.value, p)) = 1
                      /\ \A n \in Synthetic(result.value, p) :
                            result.value.containers[n].cors_methods
                               = before[p] \cup {"OPTIONS"}

C21_Witness ==
    /\ CorsApplied
    /\ \E p, q \in DOMAIN op_paths_collated(call.api_interface) :
          /\ "OPTIONS" \in op_paths_collated(call.api_interface)[p]
          /\ "OPTIONS" \notin op_paths_collated(call.api_interface)[q]
          /\ Synthetic(result.value, q) # {}
    /\ result.value.middleware = <<call.self>>

(* C22  the preflight response *)

AccessControlHeaders(hdrs) ==
    DOMAIN hdrs \cap {"Access-Control-Allow-Origin", "Access-Control-Allow-Methods",
                      "Access-Control-Allow-Credentials", "Access-Control-Allow-Headers",
                      "Access-Control-Expose-Headers", "Access-Control-Max-Age"}

OptionHeadersCalled == call.function = "CORS.option_headers" /\ result # NoResult

\* The preflight responses of the path p after CORS has been applied: the
\* responses of the OPTIONS operations CORS registered on it, for each order
\* in which the set of methods may be iterated.
PreflightResponses(p, request_) ==
    UNION {{_cors_options(call.self, request_,
                          result.value.containers[n].cors_methods, order) :
               order \in Orderings(result.value.containers[n].cors_methods)} :
             n \in Synthetic(result.value, p)}

\* C22, the part on a whitelist: when the configured whitelist does not
\* contain the Origin of the request, option_headers returns Allow and
\* Cache-Control and no Access-Control-* header.
C22_WhitelistOmitsHeaders ==
    (/\ OptionHeadersCalled
     /\ call.self.origins # AnyOrigin
     /\ call.request.origin \notin call.self.origins.origins)
        => AccessControlHeaders(result.value) = {}

\* C22: for a path with the registered methods {GET, HEAD} and
\* origins=AnyOrigin there is a preflight response, with
\* Access-Control-Allow-Origin: * and with exactly GET and HEAD in
\* Access-Control-Allow-Methods; for a whitelist that does not contain the
\* Origin of the request the Access-Control-* headers are omitted.
C22_Preflight ==
    /\ (CorsApplied /\ call.self.origins = AnyOrigin) =>
          \A p \in DOMAIN op_paths_collated(call.api_interface) :
             op_paths_collated(call.api_interface)[p] = {"GET", "HEAD"} =>
                \A request_ \in CorsRequests :
                   /\ PreflightResponses(p, request_) # {}
                   /\ \A response_ \in PreflightResponses(p, request_) :
                         /\ response_.headers["Access-Control-Allow-Origin"] = <<"*">>
                         /\ Range(response_.headers["Access-Control-Allow-Methods"])
                               = {"GET", "HEAD"}
    /\ C22_WhitelistOmitsHeaders

\* The methods the registered operation would hand to option_headers are
\* the methods of the path with OPTIONS added: a call with them never
\* yields exactly GET and HEAD.
C22_OptionsIsAdded ==
    (/\ OptionHeadersCalled
     /\ "OPTIONS" \in Range(call.methods)
     /\ call.self.origins = AnyOrigin)
        => /\ result.value["Access-Control-Allow-Origin"] = <<"*">>
           /\ "OPTIONS" \in Range(result.value["Access-Control-Allow-Methods"])

(* C23  Access-Control-Allow-Origin *)

PostRequestCalled == call.function = "CORS.post_request" /\ result # NoResult

Whitelisted(self, request_) ==
    self.origins # AnyOrigin /\ request_.origin \in self.origins.origins

\* The Access-Control-Allow-Origin the claim allows for the request.
C23Allowed(self, request_) ==
    IF self.origins = AnyOrigin THEN <<"*">> ELSE <<request_.origin>>

\* C23: the Access-Control-Allow-Origin that is emitted is '*' under
\* AnyOrigin or the Origin of the request when it is in the whitelist; an
\* Origin outside the whitelist is never echoed, and post_request leaves
\* the header absent on the responses to origins outside the whitelist and
\* on the responses to OPTIONS.
C23_AllowOrigin ==
    /\ OptionHeadersCalled =>
          IF call.self.origins = AnyOrigin \/ Whitelisted(call.self, call.request)
          THEN result.value["Access-Control-Allow-Origin"]
                  = C23Allowed(call.self, call.request)
          ELSE "Access-Control-Allow-Origin" \notin DOMAIN result.value
    /\ PostRequestCalled =>
          IF /\ call.request.method # "OPTIONS"
             /\ call.self.origins = AnyOrigin \/ Whitelisted(call.self, call.request)
          THEN result.value.headers["Access-Control-Allow-Origin"]
                  = C23Allowed(call.self, call.request)
          ELSE "Access-Control-Allow-Origin" \notin DOMAIN result.value.headers

\* What the code does for an Origin outside the whitelist: the Origin is
\* not echoed, option_headers omits the header, and post_request sets it
\* to the empty string on every response that is not to OPTIONS.
C23_EmptyHeaderOutsideWhitelist ==
    /\ (OptionHeadersCalled /\ call.self.origins # AnyOrigin
           /\ ~Whitelisted(call.self, call.request)) =>
          "Access-Control-Allow-Origin" \notin DOMAIN result.value
    /\ (PostRequestCalled /\ call.self.origins # AnyOrigin
           /\ ~Whitelisted(call.self, call.request)) =>
          IF call.request.method = "OPTIONS"
          THEN "Access-Control-Allow-Origin" \notin DOMAIN result.value.headers
          ELSE result.value.headers["Access-Control-Allow-Origin"] = <<>>

(* C24  signing and verifying a url *)

VerifyCalled == call.function = "verify_url"

SameSecret == call.secret_key = call.signing.secret_key

Unchanged == parse_qs(call.url.query) = parse_qs(call.signed.query)

\* The clock has passed now + expire_in.
PastExpiry ==
    /\ call.signing.expire_in # None
    /\ call.clock > call.signing.now + 2 * call.signing.expire_in.value

\* C24: a url produced by sign_url_path verifies with the same secret
\* while the clock has not passed now + expire_in, fails once the clock is
\* past it, and fails whenever a query parameter was added, removed or
\* changed after the signing.
C24_SignVerify ==
    VerifyCalled =>
        /\ (SameSecret /\ Unchanged /\ ~PastExpiry) => result = Returned(TRUE)
        /\ (SameSecret /\ Unchanged /\ PastExpiry) => result.kind = "raised"
        /\ ~Unchanged => result.kind = "raised"

\* The part of C24 on changed urls alone.
C24_ChangeIsDetected == (VerifyCalled /\ ~Unchanged) => result.kind = "raised"

\* What holds of the code: a url whose own query has no signature and no
\* expires verifies with the same secret until the clock passes the
\* expires it carries, int(now + expire_in), and not after; and a change
\* is detected unless it leaves the signed text
\* path?key=value&key=value as it was.
C24_SignedTextDecides ==
    VerifyCalled =>
        LET source == parse_qs(call.signing.url.query)
            expires == (call.signing.now + 2 * call.signing.expire_in.value) \div 2
            Payload(url) == url.path \o <<"?">>
                              \o JoinItems(sorteditems(Pop(parse_qs(url.query), "signature")))
        IN  /\ (/\ SameSecret /\ Unchanged
                /\ DOMAIN source \cap {"signature", "expires"} = {}) =>
                  (result = Returned(TRUE)
                     <=> (call.signing.expire_in = None \/ call.clock <= 2 * expires))
            /\ (~SameSecret \/ Payload(call.url) # Payload(call.signed)) =>
                  result.kind = "raised"

(* C25  the signed-auth pre_dispatch hook *)

PreDispatchCalled == call.function = "SignedAuthBase.pre_dispatch"

\* The failures C25 lists, read off the request: no secret key, no
\* signature, a signature that is not the one of the request, an expires
\* that is no number, and an expires the clock has passed.
C25Failure ==
    LET GET == call.request.GET
        expires == IF "expires" \in DOMAIN GET
                   THEN int(GET["expires"][Len(GET["expires"])])
                   ELSE Returned(0)
    IN  \/ call.secret_key = ""
        \/ "signature" \notin DOMAIN GET
        \/ GET["signature"][Len(GET["signature"])]
              # _generate_signature(call.request.path, call.secret_key, Pop(GET, "signature"))
        \/ expires.kind = "raised"
        \/ "expires" \in DOMAIN GET /\ 2 * expires.value < call.clock

\* C25: pre_dispatch raises PermissionDenied for every failure, and the
\* message is 'Signature not valid.' in every case.
C25_GenericMessage ==
    PreDispatchCalled =>
        /\ C25Failure => result.kind = "raised" /\ result.error = "PermissionDenied"
        /\ result.kind = "raised" => result.message = "Signature not valid."

\* What holds of the code: every failure raises PermissionDenied, with
\* the message of the check that failed.
C25_DeniedWithTheMessageOfTheCheck ==
    PreDispatchCalled =>
        /\ C25Failure <=> result.kind = "raised"
        /\ result.kind = "raised" =>
              /\ result.error = "PermissionDenied"
              /\ result.message \in {"Signature not valid.", "Signature missing.",
                                     "No salt used.", "Invalid expiry value.",
                                     "Signature has expired."}

(* ------------------------------------------------ claims: instances *)

\* The instances whose class lists the Operation of this sort_key.
InstancesOf(k) ==
    {n \in 1..Len(instances) :
        \E op \in Range(Table(instances[n])) : op.sort_key = k}

\* C26: once an Operation is bound to a ResourceApi instance, no later
\* instantiation and no dispatch binds it to another instance.
C26_BoundOnce ==
    [][\A k \in DOMAIN bound :
          bound[k].binding # 0 => bound'[k].binding = bound[k].binding]_vars

\* What the code keeps instead: an Operation is bound to the instance
\* constructed last among those whose class lists it, which is also the
\* last entry of its middleware, and an execution runs on the binding
\* whatever the instance the request came through.
C26_BoundToTheLast ==
    /\ \A k \in DOMAIN bound :
          /\ InstancesOf(k) = {} => bound[k] = Unbound
          /\ InstancesOf(k) # {} =>
                /\ bound[k].binding \in InstancesOf(k)
                /\ \A n \in InstancesOf(k) : n <= bound[k].binding
                /\ bound[k].middleware[Len(bound[k].middleware)]
                      = bound[k].binding
    /\ executed # NotExecuted =>
          executed.self \in InstancesOf(executed.operation)

\* C27: no instantiation (SwaggerSpec included) and no dispatch adds,
\* removes or reorders an entry of the operation table of a class.
C27_TableIsFixed ==
    [][/\ \A cls \in 1..Len(classes) :
             classes'[cls].operations = classes[cls].operations
       /\ swagger_operations' = swagger_operations]_vars

\* What the code keeps instead: the table of a declared class is fixed,
\* and the table of SwaggerSpec only grows at its end.
C27_DeclaredTablesAreFixed ==
    [][/\ \A cls \in 1..Len(classes) : classes'[cls] = classes[cls]
       /\ Len(swagger_operations') >= Len(swagger_operations)
       /\ SubSeq(swagger_operations', 1, Len(swagger_operations))
             = swagger_operations]_vars

\* The attribute an Operation is declared as: the k-th Operation of a
\* class body is the attribute of the k-th name, so that the k-th
\* Operation of a subclass overrides the k-th one of its parents.
AttributeOf(op) ==
    CHOOSE k \in 1..MaxDeclared :
        \E cls \in 1..Len(classes) :
            k \in DOMAIN classes[cls].declared /\ classes[cls].declared[k] = op

\* C28: no Operation is twice in the operation table of a class, and no
\* two Operations of the table are declared as the same attribute.
C28_Deduplicated ==
    \A cls \in 1..Len(classes) :
        \A a, b \in DOMAIN classes[cls].operations :
            a # b =>
                /\ classes[cls].operations[a] # classes[cls].operations[b]
                /\ AttributeOf(classes[cls].operations[a])
                      # AttributeOf(classes[cls].operations[b])

\* What the code keeps instead: the table lists the Operations of the
\* class body once each, next to every entry of the table of every parent.
C28_EveryParentEntryIsKept ==
    \A cls \in 1..Len(classes) :
        Len(classes[cls].operations)
            = Len(classes[cls].declared)
              + Len(ParentOperations(classes[cls].parents))

(* ------------------------------------------ claims: the cached hooks *)

\* The hook whose sequence was read last, and the list positions of the
\* methods called.
LastRead == calls[1].hook

Invoked == {calls[k].id : k \in 2..Len(calls)}

\* C29: a hook sequence is computed at its first read and cached: at every
\* read, the middleware called for the hook are those of the list as it
\* was at the first read that have the hook; one appended later is not
\* called, one appended before is.
C29_CachedOnFirstRead ==
    /\ \A hook \in HookNames :
          cache[hook].set =>
             \A p \in 1..Len(middleware) :
                p \in Range(cache[hook].value)
                   <=> (p <= cache[hook].size /\ hook \in middleware[p].hooks)
    /\ calls # <<>> =>
          /\ cache[LastRead].set
          /\ Invoked = Range(cache[LastRead].value)

\* A middleware that has the hook was appended after the first read of
\* the sequence, an earlier one has it too, and the sequence was read again.
C29_Witness ==
    /\ calls # <<>>
    /\ cache[LastRead].size < Len(middleware)
    /\ \E p, q \in 1..Len(middleware) :
          /\ p <= cache[LastRead].size
          /\ q > cache[LastRead].size
          /\ LastRead \in middleware[p].hooks
          /\ LastRead \in middleware[q].hooks
          /\ p \in Invoked
          /\ q \notin Invoked

(* ------------------------------------------- claims: post_request hooks *)

\* The post_request hooks this dispatch has called, in call order.
PostRequestIds == CallIds("post_request", "interface")

\* What raised into the except clause of dispatch: the last call before
\* handle_500 was entered from there.
RaisedAt ==
    LET entered == {k \in 1..Len(calls) : calls[k] = Call("handle_500", "stage", 0)}
        last == CHOOSE k \in entered : \A j \in entered : j <= k
    IN  IF entered = {} \/ last = 1 THEN "none" ELSE calls[last - 1].hook

\* C30 (as claimed): once the post_request loop is reached (no pre_request
\* hook raised and _dispatch returned a response), every post_request hook
\* is applied in descending priority order and dispatch returns the
\* response they made.
C30_EveryPostRequestHookIsApplied ==
    (pc = "done" /\ HasCall("post_request", "interface")) =>
        /\ PostRequestIds = post_request(middleware)
        /\ outcome = "returned"
        /\ response # ErrorProcessingResponse

\* C30 (amended): the post_request hooks are applied in descending priority
\* order up to the first one that raises.  A dispatch that returns without
\* having entered its except clause has applied every one of them to the
\* response of _dispatch; one that entered it with debug disabled returns
\* the fixed 500 response 'Error processing response.', after no
\* post_request hook when a pre_request hook raised or the encoding failed,
\* and after the raising one when a post_request hook raised; with debug
\* enabled the exception leaves dispatch.
C30_PostRequestUntilOneRaises ==
    pc = "done" =>
        /\ IsPrefix(PostRequestIds, post_request(middleware))
        /\ C1Descending(middleware, PostRequestIds)
        /\ (outcome = "returned" /\ ret # "dispatch") =>
              /\ PostRequestIds = post_request(middleware)
              /\ ("test" \in DOMAIN response.headers) <=> PostRequestIds # <<>>
        /\ (outcome = "returned" /\ ret = "dispatch") =>
              /\ ~debug_enabled
              /\ response = ErrorProcessingResponse
              /\ RaisedAt \in {"pre_request", "encode", "post_request"}
              /\ RaisedAt \in {"pre_request", "encode"} => PostRequestIds = <<>>
              /\ RaisedAt = "post_request" => PostRequestIds # <<>>
        /\ outcome = "raised" => debug_enabled

\* Two post_request hooks were applied to a response _dispatch returned.
C30_Witness ==
    /\ pc = "done"
    /\ outcome = "returned"
    /\ ret # "dispatch"
    /\ Len(PostRequestIds) = 2
    /\ PriorityKey(middleware[PostRequestIds[1]])
          > PriorityKey(middleware[PostRequestIds[2]])

====
